---- MODULE Spec2Model ----
(***************************************************************************)
(* Inbound content ingestion and deduplication pipeline of logos.          *)
(*                                                                         *)
(* Go strings and byte slices are modelled as sequences of characters,     *)
(* each character a TLA+ string.  A character is one rune; MultiByte lists *)
(* the runes whose UTF-8 encoding takes two bytes.  Markup elements        *)
(* ("<script>", "<nav>", ...) are single characters of the sequence, which *)
(* lets the external sanitizer and readability libraries be modelled by    *)
(* what they remove.                                                       *)
(***************************************************************************)
EXTENDS Integers, Sequences, FiniteSets, TLC

VARIABLES
  readings,      \* the rows of table readings
  sources,       \* the rows of table reading_sources
  userReadings,  \* the rows of table user_readings
  pandocPath,    \* Converter.pandocPath, Empty when no executable was found
  files,         \* the paths LocalFileStorer.Store has written under its base path
  editions,      \* the rows of table editions
  editionReadings, \* the rows of table edition_readings
  deliveries,    \* the rows of table deliveries
  tick,          \* the scheduler: its clock, where Tick is and the locals of processTemplate
  run,           \* per inbound request: where it is and its local variables
  input,         \* the argument of a function applied on its own
  output         \* and its result

vars ==
  <<readings, sources, userReadings, pandocPath, files, editions, editionReadings,
    deliveries, tick, run, input, output>>

editionVars == <<editions, editionReadings, deliveries, tick>>

storeVars == <<readings, sources, userReadings>>

(***************************************************************************)
(* strings                                                                 *)
(***************************************************************************)

Empty == <<>>

Whitespace == {" ", "\n"}

MultiByte == {"é"}

UpperMap ==
  ("A" :> "a") @@ ("D" :> "d") @@ ("F" :> "f") @@ ("P" :> "p") @@
  ("T" :> "t") @@ ("X" :> "x") @@ ("E" :> "e")

\* strings.ToLower that leaves the letter case as it is.
ToLowerKeepingCase(s) == s

ToLower(s) ==
  [i \in 1..Len(s) |-> IF s[i] \in DOMAIN UpperMap THEN UpperMap[s[i]] ELSE s[i]]

EqualFold(a, b) == ToLower(a) = ToLower(b)

HasSuffix(s, suffix) ==
  /\ Len(suffix) <= Len(s)
  /\ SubSeq(s, Len(s) - Len(suffix) + 1, Len(s)) = suffix

TrimSuffix(s, suffix) ==
  IF HasSuffix(s, suffix) THEN SubSeq(s, 1, Len(s) - Len(suffix)) ELSE s

\* strings.TrimSpace: drop leading and trailing white space.
TrimSpace(s) ==
  LET keep == {i \in 1..Len(s) : s[i] \notin Whitespace}
  IN  IF keep = {} THEN Empty
      ELSE LET lo == CHOOSE i \in keep : \A j \in keep : i <= j
               hi == CHOOSE i \in keep : \A j \in keep : j <= i
           IN  SubSeq(s, lo, hi)

\* filepath.Ext: the suffix beginning at the final dot of the final path
\* element, empty if that element has no dot.
Ext(path) ==
  LET dots == {i \in 1..Len(path) :
                 /\ path[i] = "."
                 /\ \A j \in i..Len(path) : path[j] # "/"}
  IN  IF dots = {} THEN Empty
      ELSE SubSeq(path, CHOOSE i \in dots : \A j \in dots : j <= i, Len(path))

\* len(string): the number of bytes of the UTF-8 encoding.
ByteLen(s) == Len(s) + Cardinality({i \in 1..Len(s) : s[i] \in MultiByte})

\* strings.LastIndex: byte offset (from 0) of the last occurrence, -1 if none.
LastIndex(s, substr) ==
  LET at == {i \in 1..(Len(s) - Len(substr) + 1) :
               SubSeq(s, i, i + Len(substr) - 1) = substr}
  IN  IF at = {} THEN -1
      ELSE ByteLen(SubSeq(s, 1, (CHOOSE i \in at : \A j \in at : j <= i) - 1))

\* webutil.GenerateHash: hex SHA-256 digest, taken to be collision free.
GenerateHash(data) == <<"sha256", data>>

(***************************************************************************)
(* models.ReadingFormat                                                    *)
(***************************************************************************)

ReadingFormatHTML == "html"
ReadingFormatPDF == "pdf"
ReadingFormatEPUB == "epub"
ReadingFormatMOBI == "mobi"
ReadingFormatTXT == "txt"
ReadingFormatMD == "md"
ReadingFormatDOCX == "docx"
ReadingFormatRTF == "rtf"

\* string(format), character by character.
FormatChars ==
  ("html" :> <<"h", "t", "m", "l">>) @@ ("pdf" :> <<"p", "d", "f">>) @@
  ("epub" :> <<"e", "p", "u", "b">>) @@ ("mobi" :> <<"m", "o", "b", "i">>) @@
  ("txt" :> <<"t", "x", "t">>) @@ ("md" :> <<"m", "d">>) @@
  ("docx" :> <<"d", "o", "c", "x">>) @@ ("rtf" :> <<"r", "t", "f">>)

\* strings.ToUpper(string(format)), kept as one character of the excerpt.
FormatUpper ==
  ("html" :> "HTML") @@ ("pdf" :> "PDF") @@ ("epub" :> "EPUB") @@
  ("mobi" :> "MOBI") @@ ("txt" :> "TXT") @@ ("md" :> "MD") @@
  ("docx" :> "DOCX") @@ ("rtf" :> "RTF")

IsDirectReadingFormat(format) ==
  format \in {ReadingFormatPDF, ReadingFormatEPUB, ReadingFormatMOBI}

(***************************************************************************)
(* conversion.Converter                                                    *)
(*                                                                         *)
(* pandoc is the state of the external utility for one call: "absent" (no  *)
(* executable was found when the converter was built), "fails" (the        *)
(* process exits with an error or runs into the timeout) or "ok".          *)
(***************************************************************************)

PandocStates == {"absent", "fails", "ok"}

\* The markup pandoc writes for a document: the text in a paragraph.
runPandoc(pandoc, inputBytes) ==
  IF pandoc = "ok"
  THEN [err |-> FALSE, out |-> <<"<p>">> \o inputBytes \o <<"</p>">>]
  ELSE [err |-> TRUE, out |-> Empty]

\* A ToHTML that hands on what pandoc has written when pandoc fails.
ToHTMLKeepingPartialOutput(contentBytes, originalFormat, pandoc) ==
  CASE originalFormat \in {ReadingFormatMD, ReadingFormatDOCX, ReadingFormatRTF} ->
         IF pandoc = "absent"
         THEN [bytes |-> contentBytes, format |-> originalFormat, err |-> TRUE]
         ELSE LET r == runPandoc(pandoc, contentBytes)
              IN  [bytes |-> r.out, format |-> ReadingFormatHTML, err |-> r.err]
    [] originalFormat = ReadingFormatHTML ->
         [bytes |-> contentBytes, format |-> ReadingFormatHTML, err |-> FALSE]
    [] originalFormat = ReadingFormatTXT ->
         [bytes |-> <<"<pre>">> \o contentBytes \o <<"</pre>">>,
          format |-> ReadingFormatHTML, err |-> FALSE]
    [] IsDirectReadingFormat(originalFormat) ->
         [bytes |-> contentBytes, format |-> originalFormat, err |-> FALSE]
    [] OTHER ->
         [bytes |-> contentBytes, format |-> originalFormat, err |-> TRUE]

ToHTML(contentBytes, originalFormat, pandoc) ==
  CASE originalFormat \in {ReadingFormatMD, ReadingFormatDOCX, ReadingFormatRTF} ->
         IF pandoc = "absent"
         THEN [bytes |-> contentBytes, format |-> originalFormat, err |-> TRUE]
         ELSE LET r == runPandoc(pandoc, contentBytes)
              IN  IF r.err
                  THEN [bytes |-> contentBytes, format |-> originalFormat, err |-> TRUE]
                  ELSE [bytes |-> r.out, format |-> ReadingFormatHTML, err |-> FALSE]
    [] originalFormat = ReadingFormatHTML ->
         [bytes |-> contentBytes, format |-> ReadingFormatHTML, err |-> FALSE]
    [] originalFormat = ReadingFormatTXT ->
         [bytes |-> <<"<pre>">> \o contentBytes \o <<"</pre>">>,
          format |-> ReadingFormatHTML, err |-> FALSE]
    [] IsDirectReadingFormat(originalFormat) ->
         [bytes |-> contentBytes, format |-> originalFormat, err |-> FALSE]
    [] OTHER ->
         [bytes |-> contentBytes, format |-> originalFormat, err |-> TRUE]

(***************************************************************************)
(* ingestion.ContentProcessor                                              *)
(***************************************************************************)

Tags == {"<script>", "<nav>", "<h1>", "<p>", "</p>", "<pre>", "</pre>", "<bad>"}

NilContent == [nil |-> TRUE, MainHTML |-> Empty, MainText |-> Empty, ExtractedTitle |-> Empty]

ProcessedContent(html, text, title) ==
  [nil |-> FALSE, MainHTML |-> html, MainText |-> text, ExtractedTitle |-> title]

\* bluemonday.UGCPolicy().Sanitize: scripts are stripped, structure is kept.
SanitizeUGC(html) == SelectSeq(html, LAMBDA c : c # "<script>")

\* bluemonday.StripTagsPolicy().Sanitize: all markup is stripped.
SanitizeStripTags(html) == SelectSeq(html, LAMBDA c : c \notin Tags)

\* readability.FromReader: fails on a document it cannot parse ("<bad>"),
\* else drops navigation boilerplate and the heading it takes the title from;
\* an article without any text has empty Content.
ReadabilityFromReader(html) ==
  LET body == SelectSeq(html, LAMBDA c : c \notin {"<nav>", "<h1>"})
      text == SelectSeq(body, LAMBDA c : c \notin Tags)
  IN  IF \E i \in 1..Len(html) : html[i] = "<bad>"
      THEN [err |-> TRUE, Content |-> Empty, TextContent |-> Empty, Title |-> Empty]
      ELSE [err |-> FALSE,
            Content |-> IF text = Empty THEN Empty ELSE body,
            TextContent |-> text,
            Title |-> IF \E i \in 1..Len(html) : html[i] = "<h1>"
                      THEN <<"Extracted Title">> ELSE Empty]

\* A Process without the last test for empty main markup.
ProcessExtractedUnchecked(cleanedHTML, article) ==
  [err |-> FALSE,
   data |-> IF ~article.err /\ article.Content # Empty
            THEN ProcessedContent(article.Content, article.TextContent, article.Title)
            ELSE ProcessedContent(cleanedHTML, SanitizeStripTags(cleanedHTML), Empty)]

\* Process once the markup is sanitized and readability has run.
ProcessExtracted(cleanedHTML, article) ==
  LET result ==
        IF ~article.err /\ article.Content # Empty
        THEN ProcessedContent(article.Content, article.TextContent, article.Title)
        ELSE ProcessedContent(cleanedHTML, SanitizeStripTags(cleanedHTML), Empty)
  IN  IF result.MainHTML = Empty
      THEN [err |-> TRUE, data |-> NilContent]
      ELSE [err |-> FALSE, data |-> result]

\* Process once the markup is sanitized.
ProcessCleaned(cleanedHTML) ==
  ProcessExtracted(cleanedHTML, ReadabilityFromReader(cleanedHTML))

Process(rawHTML) ==
  IF rawHTML = Empty THEN [err |-> TRUE, data |-> NilContent]
  ELSE ProcessCleaned(SanitizeUGC(rawHTML))

(***************************************************************************)
(* ingestion.ContentPipelineService                                        *)
(***************************************************************************)

\* processHTMLWithContentProcessor once ContentProcessor.Process has returned r.
ProcessedOrFallback(htmlBytes, r) ==
  IF r.err \/ r.data.nil
  THEN [bytes |-> htmlBytes, data |-> ProcessedContent(htmlBytes, htmlBytes, Empty)]
  ELSE IF r.data.MainHTML = Empty
  THEN [bytes |-> htmlBytes, data |-> r.data]
  ELSE [bytes |-> r.data.MainHTML, data |-> r.data]

processHTMLWithContentProcessor(htmlBytes) ==
  IF Len(htmlBytes) = 0
  THEN [bytes |-> htmlBytes, data |-> ProcessedContent(Empty, Empty, Empty)]
  ELSE ProcessedOrFallback(htmlBytes, Process(htmlBytes))

\* ProcessContent once processHTMLWithContentProcessor has returned p.
PipelineOutputHTML(p) ==
  [FinalContentBytes |-> p.bytes, FinalFormat |-> ReadingFormatHTML,
   ProcessedData |-> p.data, err |-> FALSE]

\* ProcessContent after the conversion attempt.
ProcessCurrent(htmlBytesToProcess, currentFormat) ==
  IF currentFormat = ReadingFormatHTML
  THEN PipelineOutputHTML(processHTMLWithContentProcessor(htmlBytesToProcess))
  ELSE [FinalContentBytes |-> htmlBytesToProcess, FinalFormat |-> currentFormat,
        ProcessedData |-> NilContent, err |-> FALSE]

\* ProcessContent once Converter.ToHTML has returned conv.
ProcessConverted(inputBytes, originalFormat, conv) ==
  IF conv.err THEN ProcessCurrent(inputBytes, originalFormat)
  ELSE ProcessCurrent(conv.bytes, conv.format)

ProcessContent(inputBytes, originalFormat, pandoc) ==
  LET attemptConverter ==
        originalFormat \in {ReadingFormatDOCX, ReadingFormatRTF, ReadingFormatMD,
                            ReadingFormatTXT}
  IN  IF attemptConverter
      THEN ProcessConverted(inputBytes, originalFormat,
                            ToHTML(inputBytes, originalFormat, pandoc))
      ELSE ProcessCurrent(inputBytes, originalFormat)

(***************************************************************************)
(* ingestion.ReadingBuilder: excerpt, title, author                        *)
(***************************************************************************)

maxLength == 250

Ellipsis == <<".", ".", ".">>

\* runes[:n].  Past len(runes) the slice expression reaches into the spare
\* capacity the allocator gave the rune slice (spare zeroed runes), and
\* panics beyond it.
SliceRunes(runes, n, spare) ==
  IF n <= Len(runes) THEN [panic |-> FALSE, text |-> SubSeq(runes, 1, n)]
  ELSE IF n <= Len(runes) + spare
  THEN [panic |-> FALSE, text |-> runes \o [i \in 1..(n - Len(runes)) |-> "\\x00"]]
  ELSE [panic |-> TRUE, text |-> Empty]

\* spare: the capacity of []rune(trimmedContent) beyond its length.
generateExcerptFromText(plainTextContent, spare) ==
  LET trimmedContent == TrimSpace(plainTextContent)
      runes == trimmedContent
      tempExcerpt == SubSeq(runes, 1, maxLength)
      lastPeriod == LastIndex(tempExcerpt, <<".", " ">>)
      lastSpace == LastIndex(tempExcerpt, <<" ">>)
      cut(n) == LET r == SliceRunes(runes, n, spare)
                IN  [panic |-> r.panic,
                     text |-> IF r.panic THEN Empty ELSE r.text \o Ellipsis]
  IN  IF ByteLen(trimmedContent) = 0 THEN [panic |-> FALSE, text |-> Empty]
      ELSE IF ByteLen(trimmedContent) <= maxLength
      THEN [panic |-> FALSE, text |-> trimmedContent]
      ELSE IF Len(runes) <= maxLength
      THEN [panic |-> FALSE, text |-> trimmedContent]
      ELSE IF lastPeriod > 0 /\ lastPeriod > maxLength - 75
      THEN cut(lastPeriod + 1)
      ELSE IF lastSpace > 0 /\ lastSpace > maxLength - 100
      THEN cut(lastSpace)
      ELSE [panic |-> FALSE, text |-> tempExcerpt \o Ellipsis]

\* extractAuthorFromEnv giving no author for a header that cannot be parsed.
extractAuthorFromEnvDroppingRawHeader(env) ==
  LET fromHeader == env.From
  IN  IF fromHeader.raw = Empty THEN Empty
      ELSE IF fromHeader.ok
      THEN IF fromHeader.Name # Empty THEN fromHeader.Name ELSE fromHeader.Address
      ELSE Empty

\* enmime.ParseAddressList on the From header.  A header is modelled by its
\* parse: [raw, ok, Name, Address]; the empty header has raw = Empty.
NoHeader == [raw |-> Empty, ok |-> FALSE, Name |-> Empty, Address |-> Empty]

extractAuthorFromEnv(env) ==
  LET fromHeader == env.From
  IN  IF fromHeader.raw = Empty THEN Empty
      ELSE IF fromHeader.ok
      THEN IF fromHeader.Name # Empty THEN fromHeader.Name ELSE fromHeader.Address
      ELSE fromHeader.raw

\* TitleFromHTML without the fallback to the Subject header.
TitleFromHTMLSkippingSubject(processedContent, env, webhookSubject) ==
  LET t1 == processedContent.ExtractedTitle
      t3 == IF t1 = Empty THEN webhookSubject ELSE t1
  IN  IF t3 = Empty THEN <<"Untitled Reading">> ELSE t3

\* The title chain of BuildFromHTML.
TitleFromHTML(processedContent, env, webhookSubject) ==
  LET t1 == processedContent.ExtractedTitle
      t2 == IF t1 = Empty THEN env.Subject ELSE t1
      t3 == IF t2 = Empty THEN webhookSubject ELSE t2
  IN  IF t3 = Empty THEN <<"Untitled Reading">> ELSE t3

\* The title chain of BuildFromFile.
TitleFromFile(originalFileName, env, webhookSubject) ==
  LET t1 == TrimSuffix(originalFileName, Ext(originalFileName))
      t2 == IF t1 = Empty THEN env.Subject ELSE t1
      t3 == IF t2 = Empty THEN webhookSubject ELSE t2
  IN  IF t3 = Empty THEN <<"Untitled Attachment">> ELSE t3

\* The excerpt of BuildFromFile.
ExcerptFromFile(fileBytes, originalFormat, env) ==
  IF originalFormat \in {ReadingFormatTXT, ReadingFormatMD}
  THEN generateExcerptFromText(fileBytes, 0).text
  ELSE LET generic == <<"Attached ", FormatUpper[originalFormat], " document.">>
           excerpt == generateExcerptFromText(env.Text, 0).text
       IN  IF env.Text # Empty
           THEN IF ByteLen(excerpt) > 150 THEN generic ELSE excerpt
           ELSE generic

\* uuid.Nil.String()
NilUUID == <<"uuid", 0, "nil">>

\* A BuildFromHTML that hashes the plain text of the content.
BuildFromHTMLHashingText(env, webhookSubject, processedContent) ==
  IF processedContent.nil THEN [err |-> TRUE]
  ELSE [err |-> FALSE,
        Author |-> extractAuthorFromEnv(env),
        ContentHash |-> GenerateHash(processedContent.MainText),
        Excerpt |-> generateExcerptFromText(processedContent.MainText, 0).text,
        Title |-> TitleFromHTML(processedContent, env, webhookSubject),
        Format |-> ReadingFormatHTML]

\* BuildFromHTML up to the source lookup: every field of the reading but
\* ID and SourceID.
BuildFromHTML(env, webhookSubject, processedContent) ==
  IF processedContent.nil THEN [err |-> TRUE]
  ELSE [err |-> FALSE,
        Author |-> extractAuthorFromEnv(env),
        ContentHash |-> GenerateHash(processedContent.MainHTML),
        Excerpt |-> generateExcerptFromText(processedContent.MainText, 0).text,
        Title |-> TitleFromHTML(processedContent, env, webhookSubject),
        Format |-> ReadingFormatHTML]

\* BuildFromFile up to the source lookup.
BuildFromFile(env, webhookSubject, fileBytes, originalFormat, originalFileName) ==
  IF Len(fileBytes) = 0 THEN [err |-> TRUE]
  ELSE [err |-> FALSE,
        Author |-> extractAuthorFromEnv(env),
        ContentHash |-> GenerateHash(fileBytes),
        Excerpt |-> ExcerptFromFile(fileBytes, originalFormat, env),
        Title |-> TitleFromFile(originalFileName, env, webhookSubject),
        Format |-> originalFormat]

(***************************************************************************)
(* ingestion.IngestionOrchestrator: choice of the primary content          *)
(*                                                                         *)
(* An envelope is [Attachments, HTML, Text, Subject, From]; an attachment  *)
(* is [FileName, ContentType, Content].                                    *)
(***************************************************************************)

PrioritizedFormat(extension, format) == [Extension |-> extension, Format |-> format]

priorityOrder ==
  << PrioritizedFormat(<<".", "p", "d", "f">>, ReadingFormatPDF),
     PrioritizedFormat(<<".", "e", "p", "u", "b">>, ReadingFormatEPUB),
     PrioritizedFormat(<<".", "m", "o", "b", "i">>, ReadingFormatMOBI),
     PrioritizedFormat(<<".", "d", "o", "c", "x">>, ReadingFormatDOCX),
     PrioritizedFormat(<<".", "r", "t", "f">>, ReadingFormatRTF),
     PrioritizedFormat(<<".", "m", "d">>, ReadingFormatMD),
     PrioritizedFormat(<<".", "t", "x", "t">>, ReadingFormatTXT),
     PrioritizedFormat(<<".", "t", "e", "x", "t">>, ReadingFormatTXT) >>

minAttachmentSizeBytes == 100

NotFound == [found |-> FALSE, content |-> Empty, format |-> "", fileName |-> Empty]

Found(attachment, format) ==
  [found |-> TRUE, content |-> attachment.Content, format |-> format,
   fileName |-> attachment.FileName]

AttachmentExtensionMatches(fileName, expectedExtension) ==
  EqualFold(Ext(fileName), expectedExtension)

\* mime.ParseMediaType: the media type without its parameters; a content
\* type is the sequence of its ";"-separated parts.
ParseMediaType(contentType) ==
  IF contentType = Empty THEN "" ELSE Head(contentType)

MatchAttachmentByContentType(attachment, pFormat, contentTypeBase) ==
  CASE pFormat.Format = ReadingFormatPDF /\ contentTypeBase = "application/pdf" ->
         Found(attachment, ReadingFormatPDF)
    [] /\ pFormat.Format = ReadingFormatDOCX
       /\ contentTypeBase =
            "application/vnd.openxmlformats-officedocument.wordprocessingml.document" ->
         Found(attachment, ReadingFormatDOCX)
    [] /\ pFormat.Format = ReadingFormatRTF
       /\ contentTypeBase \in {"application/rtf", "text/rtf"} ->
         Found(attachment, ReadingFormatRTF)
    [] pFormat.Format = ReadingFormatMD /\ contentTypeBase = "text/markdown" ->
         Found(attachment, ReadingFormatMD)
    [] /\ pFormat.Format = ReadingFormatTXT
       /\ contentTypeBase = "text/plain"
       /\ \/ AttachmentExtensionMatches(attachment.FileName, <<".", "t", "x", "t">>)
          \/ AttachmentExtensionMatches(attachment.FileName, <<".", "t", "e", "x", "t">>) ->
         Found(attachment, ReadingFormatTXT)
    [] OTHER -> NotFound

\* A check that takes an attachment of any size by its content type.
checkAttachmentAgainstPriorityAnySize(attachment, pFormat) ==
  IF AttachmentExtensionMatches(attachment.FileName, pFormat.Extension)
  THEN Found(attachment, pFormat.Format)
  ELSE MatchAttachmentByContentType(attachment, pFormat,
                                    ParseMediaType(attachment.ContentType))

checkAttachmentAgainstPriority(attachment, pFormat) ==
  LET isTooSmall == Len(attachment.Content) < minAttachmentSizeBytes
      extensionDoesNotMatchPriority ==
        ~AttachmentExtensionMatches(attachment.FileName, pFormat.Extension)
  IN  IF isTooSmall /\ extensionDoesNotMatchPriority THEN NotFound
      ELSE IF AttachmentExtensionMatches(attachment.FileName, pFormat.Extension)
      THEN Found(attachment, pFormat.Format)
      ELSE MatchAttachmentByContentType(attachment, pFormat,
                                        ParseMediaType(attachment.ContentType))

\* The inner loop of findPriorityAttachment, from attachment i on.
RECURSIVE ScanAttachments(_, _, _)
ScanAttachments(attachments, pFormat, i) ==
  IF i > Len(attachments) THEN NotFound
  ELSE LET r == checkAttachmentAgainstPriority(attachments[i], pFormat)
       IN  IF r.found THEN r ELSE ScanAttachments(attachments, pFormat, i + 1)

\* The outer loop of findPriorityAttachment, from priority k on.
RECURSIVE ScanPriorities(_, _)
ScanPriorities(attachments, k) ==
  IF k > Len(priorityOrder) THEN NotFound
  ELSE LET r == ScanAttachments(attachments, priorityOrder[k], 1)
       IN  IF r.found THEN r ELSE ScanPriorities(attachments, k + 1)

\* findPriorityAttachment with the loops exchanged: the first attachment
\* that matches any priority.
RECURSIVE ScanMessageOrder(_, _)
ScanMessageOrder(attachments, i) ==
  IF i > Len(attachments) THEN NotFound
  ELSE LET r == ScanPriorities(<<attachments[i]>>, 1)
       IN  IF r.found THEN r ELSE ScanMessageOrder(attachments, i + 1)

findPriorityAttachmentInMessageOrder(env) == ScanMessageOrder(env.Attachments, 1)

findPriorityAttachment(env) == ScanPriorities(env.Attachments, 1)

\* identifyPrimaryContent that takes the text body without looking at it.
PrimaryContentFromAnyBody(env, a) ==
      IF a.found
      THEN [err |-> FALSE, rawContentBytes |-> a.content, format |-> a.format,
            originalFileName |-> a.fileName, isAttachment |-> TRUE]
      ELSE IF env.HTML # Empty
      THEN [err |-> FALSE, rawContentBytes |-> env.HTML, format |-> ReadingFormatHTML,
            originalFileName |-> <<"email_body", ".">> \o FormatChars[ReadingFormatHTML],
            isAttachment |-> FALSE]
      ELSE [err |-> FALSE, rawContentBytes |-> env.Text, format |-> ReadingFormatTXT,
            originalFileName |-> <<"email_body", ".">> \o FormatChars[ReadingFormatTXT],
            isAttachment |-> FALSE]

\* identifyPrimaryContent once findPriorityAttachment has returned a.
PrimaryContentFrom(env, a) ==
      IF a.found
      THEN [err |-> FALSE, rawContentBytes |-> a.content, format |-> a.format,
            originalFileName |-> a.fileName, isAttachment |-> TRUE]
      ELSE IF env.HTML # Empty
      THEN [err |-> FALSE, rawContentBytes |-> env.HTML, format |-> ReadingFormatHTML,
            originalFileName |-> <<"email_body", ".">> \o FormatChars[ReadingFormatHTML],
            isAttachment |-> FALSE]
      ELSE IF env.Text # Empty
      THEN [err |-> FALSE, rawContentBytes |-> env.Text, format |-> ReadingFormatTXT,
            originalFileName |-> <<"email_body", ".">> \o FormatChars[ReadingFormatTXT],
            isAttachment |-> FALSE]
      ELSE [err |-> TRUE, rawContentBytes |-> Empty, format |-> "",
            originalFileName |-> Empty, isAttachment |-> FALSE]

identifyPrimaryContent(env) == PrimaryContentFrom(env, findPriorityAttachment(env))

\* A processing that takes every content for HTML and extracts from it.
processPrimaryContentAlwaysExtracting(bytes, originalFormat, isAttachment, pandoc) ==
  PipelineOutputHTML(processHTMLWithContentProcessor(bytes))

\* processAttachedFile and processEmailBody.
processPrimaryContent(bytes, originalFormat, isAttachment, pandoc) ==
  IF isAttachment /\ IsDirectReadingFormat(originalFormat)
  THEN [FinalContentBytes |-> bytes, FinalFormat |-> originalFormat,
        ProcessedData |-> NilContent, err |-> FALSE]
  ELSE ProcessContent(bytes, originalFormat, pandoc)

(***************************************************************************)
(* ProcessInboundEmail up to its first call of the store: the content is   *)
(* identified, converted and extracted, and the reading is built but for   *)
(* its identifier and its source.  outcome is "ok" or the step that failed.*)
(***************************************************************************)

\* The reading is built and hashed.
AssembleBuilt(primary, processed, builder, built) ==
  IF built.err
  THEN [outcome |-> "failed to build reading model", primary |-> primary]
  ELSE [outcome |-> "ok", primary |-> primary, builder |-> builder,
        finalContentToStore |-> processed.FinalContentBytes,
        finalFormatForReading |-> processed.FinalFormat,
        processedHTMLDataForBuilder |-> processed.ProcessedData,
        reading |-> built]

\* The primary content is converted and extracted.
AssembleProcessed(env, webhookSubject, primary, processed) ==
  IF processed.err
  THEN [outcome |-> "failed to process email content", primary |-> primary]
  ELSE IF processed.FinalFormat = ReadingFormatHTML /\ ~processed.ProcessedData.nil
  THEN AssembleBuilt(primary, processed, "html",
                     BuildFromHTML(env, webhookSubject, processed.ProcessedData))
  ELSE AssembleBuilt(primary, processed, "file",
                     BuildFromFile(env, webhookSubject, processed.FinalContentBytes,
                                   processed.FinalFormat, primary.originalFileName))

\* The primary content is identified.
AssembleIdentified(env, webhookSubject, pandoc, primary) ==
  IF primary.err
  THEN [outcome |-> "no usable primary content found", primary |-> primary]
  ELSE AssembleProcessed(env, webhookSubject, primary,
                         processPrimaryContent(primary.rawContentBytes, primary.format,
                                               primary.isAttachment, pandoc))

Assemble(env, webhookSubject, pandoc) ==
  AssembleIdentified(env, webhookSubject, pandoc, identifyPrimaryContent(env))

(***************************************************************************)
(* The store and the inbound requests                                      *)
(***************************************************************************)

MaxRuns == 2

Runs == 1..MaxRuns

\* uuid.NewString(): a fresh identifier, here the request and the use.
NewUUID(p, kind) == <<"uuid", p, kind>>

\* uuid.Parse succeeds.
IsUUID(id) == id[1] = "uuid"

IdleRun == [pc |-> "idle"]

Finished(p) == run[p].pc = "done"

Succeeded(p) == run[p].pc = "done" /\ run[p].result = "ok"

PandocFor(path, callOK) ==
  IF path = Empty THEN "absent" ELSE IF callOK THEN "ok" ELSE "fails"

\* The local variables of request p when ProcessInboundEmail, called with
\* base, has assembled asm and comes to its first call of the store.
RunProcessing(p, base, asm) ==
           IF asm.outcome # "ok"
           THEN base @@ [pc |-> "done", result |-> asm.outcome]
           ELSE base @@
                [pc |-> "GetSource", result |-> "",
                 builder |-> asm.builder,
                 contentToStore |-> asm.finalContentToStore,
                 formatForStorage |-> asm.finalFormatForReading,
                 reading |-> [ID |-> NewUUID(p, "reading"), SourceID |-> NilUUID,
                              Author |-> asm.reading.Author,
                              ContentHash |-> asm.reading.ContentHash,
                              Excerpt |-> asm.reading.Excerpt,
                              Format |-> asm.reading.Format,
                              StoragePath |-> Empty,
                              Title |-> asm.reading.Title]]

\* HandleInbound: a request without sender is answered before
\* ProcessInboundEmail is called.
RunAssembled(p, base, asm) ==
           IF base.actualSenderEmail = Empty
           THEN base @@ [pc |-> "done", result |-> "could not determine sender"]
           ELSE RunProcessing(p, base, asm)

\* The arguments of ProcessInboundEmail.  cancelledAt is the call at which
\* r.Context() was done: "never", "conversion" when it was done before the
\* content was processed, or the call of the store that came next.
Call(userID, senderAddress, actualSenderEmail, webhookSubject, env, cancelledAt) ==
  [userID |-> userID, senderAddress |-> senderAddress,
   actualSenderEmail |-> actualSenderEmail, env |-> env,
   webhookSubject |-> webhookSubject, cancelledAt |-> cancelledAt]

\* HandleInbound under a context that is done or not.  processAttachedFile
\* and processEmailBody run under context.TODO() and Converter.ToHTML under
\* context.Background(): the content is processed the same either way.
HandleInboundWith(p, userID, senderAddress, webhookSubject, env, callOK, cancelledAt) ==
  /\ run[p].pc = "idle"
  /\ run' = [run EXCEPT ![p] =
       RunAssembled(p,
                    Call(userID, senderAddress, ToLower(senderAddress), webhookSubject,
                         env, cancelledAt),
                    Assemble(env, webhookSubject, PandocFor(pandocPath, callOK)))]
  /\ UNCHANGED <<storeVars, pandocPath, files, editionVars, input, output>>

HandleInbound(p, userID, senderAddress, webhookSubject, env, callOK) ==
  HandleInboundWith(p, userID, senderAddress, webhookSubject, env, callOK, "never")

\* ProcessInboundEmail called with an empty sender.
ProcessInboundEmailWithoutSender(p, userID, webhookSubject, env, callOK) ==
  /\ run[p].pc = "idle"
  /\ run' = [run EXCEPT ![p] =
       RunProcessing(p,
                     Call(userID, Empty, Empty, webhookSubject, env, "never"),
                     Assemble(env, webhookSubject, PandocFor(pandocPath, callOK)))]
  /\ UNCHANGED <<storeVars, pandocPath, files, editionVars, input, output>>

\* The status HandleInbound answers a request with: 200 when
\* ProcessInboundEmail returned nil or the request was acknowledged before
\* the call, 500 for every error ProcessInboundEmail returned.
StatusOf(result) ==
  IF result \in {"ok", "could not determine sender"} THEN 200 ELSE 500

\* r.Context() is done while request p is between two calls of the store.
CancelRequest(p) ==
  /\ run[p].pc \notin {"idle", "done"}
  /\ run[p].cancelledAt = "never"
  /\ run' = [run EXCEPT ![p].cancelledAt = run[p].pc]
  /\ UNCHANGED <<storeVars, pandocPath, files, editionVars, input, output>>

\* Request p is under way and its context is not done.
Live(p) == run[p].pc \notin {"idle", "done"} /\ run[p].cancelledAt = "never"

\* Request p is under way and its context is done: database/sql returns
\* ctx.Err() from every call.
Cancelled(p) == run[p].pc \notin {"idle", "done"} /\ run[p].cancelledAt # "never"

\* determineSourceIDFromSenderEmail: the lookup by (identifier, "email").
\* QueryRow takes the first row the database returns, whichever it is.
GetSourceByIdentifierAndType(p) ==
  /\ run[p].pc = "GetSource"
  /\ LET rows == {s \in sources : s.Identifier = run[p].actualSenderEmail /\ s.Type = "email"}
     IN  IF run[p].actualSenderEmail = Empty
         THEN run' = [run EXCEPT ![p].pc = "GetReading"]
         ELSE IF rows = {}
         THEN run' = [run EXCEPT ![p].pc = "CreateSource"]
         ELSE \E s \in rows :
                run' = [run EXCEPT ![p].pc = "GetReading", ![p].reading.SourceID = s.ID]
  /\ UNCHANGED <<storeVars, pandocPath, files, editionVars, input, output>>

\* An auto-creation after which the run inserts its reading without
\* looking for a duplicate.
CreateReadingSourceSkippingLookup(p) ==
  /\ run[p].pc = "CreateSource"
  /\ LET newSource == [ID |-> NewUUID(p, "source"), Name |-> run[p].actualSenderEmail,
                       Type |-> "email", Identifier |-> run[p].actualSenderEmail]
     IN  /\ sources' = sources \cup {newSource}
         /\ run' = [run EXCEPT ![p].pc = "CreateReading",
                               ![p].reading.SourceID = newSource.ID]
  /\ UNCHANGED <<readings, userReadings, pandocPath, files, editionVars, input, output>>

\* determineSourceIDFromSenderEmail: the auto-creation after "not found".
\* A failure is dropped by the builders, which go on with uuid.Nil.
CreateReadingSource(p) ==
  /\ run[p].pc = "CreateSource"
  /\ LET newSource == [ID |-> NewUUID(p, "source"), Name |-> run[p].actualSenderEmail,
                       Type |-> "email", Identifier |-> run[p].actualSenderEmail]
     IN  IF newSource.Name = Empty \/ newSource.Identifier = Empty
         THEN /\ run' = [run EXCEPT ![p].pc = "GetReading"]
              /\ UNCHANGED sources
         ELSE /\ sources' = sources \cup {newSource}
              /\ run' = [run EXCEPT ![p].pc = "GetReading",
                                    ![p].reading.SourceID = newSource.ID]
  /\ UNCHANGED <<readings, userReadings, pandocPath, files, editionVars, input, output>>

\* A lookup by content hash that never finds a row.
RowsByContentHashNotFound(hash) == {}

\* The rows SELECT ... WHERE content_hash = $1 can return under LIMIT 1.
RowsByContentHash(hash) == {r \in readings : r.ContentHash = hash}

\* A duplicate branch that moves the existing row to a storage path of the
\* user it runs for.
GetReadingByContentHashRehoming(p) ==
  /\ run[p].pc = "GetReading"
  /\ LET rows == RowsByContentHash(run[p].reading.ContentHash)
     IN  IF rows = {}
         THEN /\ run' = [run EXCEPT ![p].pc = "CreateReading"]
              /\ UNCHANGED readings
         ELSE \E existingReading \in rows :
                LET path == <<"readings/", run[p].userID, "/", existingReading.ID,
                              ".", run[p].formatForStorage>>
                IN  /\ readings' = (readings \ {existingReading}) \cup
                                     {[existingReading EXCEPT !.StoragePath = path]}
                    /\ run' = [run EXCEPT ![p].pc = "AddUserReading",
                                          ![p].reading.ID = existingReading.ID,
                                          ![p].reading.StoragePath = path]
  /\ UNCHANGED <<sources, userReadings, pandocPath, files, editionVars, input, output>>

\* processReadingPersistenceAndDeduplication: the lookup and the duplicate branch.
GetReadingByContentHash(p) ==
  /\ run[p].pc = "GetReading"
  /\ LET rows == RowsByContentHash(run[p].reading.ContentHash)
     IN  IF rows = {}
         THEN run' = [run EXCEPT ![p].pc = "CreateReading"]
         ELSE \E existingReading \in rows :
                run' = [run EXCEPT ![p].pc = "AddUserReading",
                                   ![p].reading.ID = existingReading.ID,
                                   ![p].reading.StoragePath = existingReading.StoragePath]
  /\ UNCHANGED <<storeVars, pandocPath, files, editionVars, input, output>>

\* The row INSERT INTO readings writes.
\* content_body is not among the columns of the INSERT: the row has none.
ReadingRow(reading) ==
  [ID |-> reading.ID, SourceID |-> reading.SourceID, Author |-> reading.Author,
   ContentHash |-> reading.ContentHash, ContentBody |-> Empty,
   Excerpt |-> reading.Excerpt,
   Format |-> reading.Format, StoragePath |-> reading.StoragePath,
   Title |-> reading.Title]

\* A persistNewReading whose failure is logged only: the run goes on to link
\* the user.
CreateReadingThenLink(p) ==
  /\ run[p].pc = "CreateReading"
  /\ LET reading == [run[p].reading EXCEPT
                       !.StoragePath = <<"readings/", run[p].userID, "/", run[p].reading.ID,
                                         ".", run[p].formatForStorage>>]
         missing == \/ reading.ID = Empty \/ reading.SourceID = Empty
                    \/ reading.ContentHash = Empty \/ reading.Excerpt = Empty
                    \/ reading.StoragePath = Empty \/ reading.Title = Empty
         invalid == ~IsUUID(reading.ID) \/ ~IsUUID(reading.SourceID)
         rejected == \/ \E r \in readings : r.ID = reading.ID
                     \/ ~\E s \in sources : s.ID = reading.SourceID
     IN  /\ readings' = IF missing \/ invalid \/ rejected THEN readings
                        ELSE readings \cup {ReadingRow(reading)}
         /\ run' = [run EXCEPT ![p].pc = "AddUserReading", ![p].reading = reading]
  /\ UNCHANGED <<sources, userReadings, pandocPath, files, editionVars, input, output>>

\* persistNewReading and ReadingRepository.CreateReading.
CreateReading(p) ==
  /\ run[p].pc = "CreateReading"
  /\ LET reading == [run[p].reading EXCEPT
                       !.StoragePath = <<"readings/", run[p].userID, "/", run[p].reading.ID,
                                         ".", run[p].formatForStorage>>]
         missing == \/ reading.ID = Empty \/ reading.SourceID = Empty
                    \/ reading.ContentHash = Empty \/ reading.Excerpt = Empty
                    \/ reading.StoragePath = Empty \/ reading.Title = Empty
         invalid == ~IsUUID(reading.ID) \/ ~IsUUID(reading.SourceID)
         \* readings_pkey and readings_reading_source_id_fkey
         rejected == \/ \E r \in readings : r.ID = reading.ID
                     \/ ~\E s \in sources : s.ID = reading.SourceID
     IN  IF missing \/ invalid \/ rejected
         THEN /\ run' = [run EXCEPT ![p].pc = "done", ![p].reading = reading,
                           ![p].result = "failed to save reading record to database"]
              /\ UNCHANGED readings
         ELSE /\ readings' = readings \cup {ReadingRow(reading)}
              /\ run' = [run EXCEPT ![p].pc = "AddUserReading", ![p].reading = reading]
  /\ UNCHANGED <<sources, userReadings, pandocPath, files, editionVars, input, output>>

\* The end of ProcessInboundEmail after its call of AddUserReading: the
\* failure errLink is logged and nil is returned all the same.
Linking(r, errLink) == [pc |-> "done", result |-> "ok", linkErr |-> errLink] @@ r

\* An AddUserReading that writes nothing and reports no error.
AddUserReadingDropped(p) ==
  /\ run[p].pc = "AddUserReading"
  /\ run' = [run EXCEPT ![p] = Linking(@, FALSE)]
  /\ UNCHANGED <<storeVars, pandocPath, files, editionVars, input, output>>

\* AddUserReading as an INSERT without ON CONFLICT DO NOTHING and without
\* the primary key.
AddUserReadingPlainInsert(p) ==
  /\ run[p].pc = "AddUserReading"
  /\ LET userID == run[p].userID
         readingID == run[p].reading.ID
         invalid == ~IsUUID(userID) \/ ~IsUUID(readingID)
         rejected == ~\E r \in readings : r.ID = readingID
     IN  /\ userReadings' =
              IF invalid \/ rejected THEN userReadings
              ELSE userReadings \cup
                     {[user_id |-> userID, reading_id |-> readingID, received_at |-> p]}
         /\ run' = [run EXCEPT ![p] = Linking(@, invalid \/ rejected)]
  /\ UNCHANGED <<readings, sources, pandocPath, files, editionVars, input, output>>

\* ReadingRepository.AddUserReading; ProcessInboundEmail logs its failure and
\* returns nil all the same.
AddUserReading(p) ==
  /\ run[p].pc = "AddUserReading"
  /\ LET userID == run[p].userID
         readingID == run[p].reading.ID
         invalid == ~IsUUID(userID) \/ ~IsUUID(readingID)
         \* user_readings_reading_id_fkey
         rejected == ~\E r \in readings : r.ID = readingID
         conflict == \E l \in userReadings : l.user_id = userID /\ l.reading_id = readingID
     IN  /\ userReadings' =
              IF invalid \/ rejected \/ conflict THEN userReadings
              ELSE userReadings \cup
                     {[user_id |-> userID, reading_id |-> readingID, received_at |-> p]}
         /\ run' = [run EXCEPT ![p] = Linking(@, invalid \/ rejected)]
  /\ UNCHANGED <<readings, sources, pandocPath, files, editionVars, input, output>>

\* determineSourceIDFromSenderEmail when the lookup fails with another error
\* than sql.ErrNoRows: uuid.Nil and an error, which the builders drop.
GetSourceByIdentifierAndTypeFails(p) ==
  /\ run[p].pc = "GetSource"
  /\ run[p].actualSenderEmail # Empty
  /\ run' = [run EXCEPT ![p].pc = "GetReading", ![p].reading.SourceID = NilUUID]
  /\ UNCHANGED <<storeVars, pandocPath, files, editionVars, input, output>>

\* determineSourceIDFromSenderEmail when the INSERT of the source fails.
CreateReadingSourceFails(p) ==
  /\ run[p].pc = "CreateSource"
  /\ run' = [run EXCEPT ![p].pc = "GetReading", ![p].reading.SourceID = NilUUID]
  /\ UNCHANGED <<storeVars, pandocPath, files, editionVars, input, output>>

\* processReadingPersistenceAndDeduplication when the lookup by hash fails.
GetReadingByContentHashFails(p) ==
  /\ run[p].pc = "GetReading"
  /\ run' = [run EXCEPT ![p].pc = "done",
                        ![p].result = "failed to check for duplicate content"]
  /\ UNCHANGED <<storeVars, pandocPath, files, editionVars, input, output>>

\* persistNewReading when the INSERT of the reading fails in the database.
CreateReadingFails(p) ==
  /\ run[p].pc = "CreateReading"
  /\ run' = [run EXCEPT
              ![p].pc = "done",
              ![p].reading.StoragePath = <<"readings/", run[p].userID, "/", run[p].reading.ID,
                                          ".", run[p].formatForStorage>>,
              ![p].result = "failed to save reading record to database"]
  /\ UNCHANGED <<storeVars, pandocPath, files, editionVars, input, output>>

\* A failure of the link that ends the request with an error.
AddUserReadingFailsFatally(p) ==
  /\ run[p].pc = "AddUserReading"
  /\ run' = [run EXCEPT ![p] = [pc |-> "done", result |-> "failed to link reading to user",
                                linkErr |-> TRUE] @@ @]
  /\ UNCHANGED <<storeVars, pandocPath, files, editionVars, input, output>>

\* ProcessInboundEmail when the INSERT of the link fails in the database.
AddUserReadingFails(p) ==
  /\ run[p].pc = "AddUserReading"
  /\ run' = [run EXCEPT ![p] = Linking(@, TRUE)]
  /\ UNCHANGED <<storeVars, pandocPath, files, editionVars, input, output>>

\* A call of the store that fails in the database.
StoreFault(p) ==
  \/ GetSourceByIdentifierAndTypeFails(p)
  \/ CreateReadingSourceFails(p)
  \/ GetReadingByContentHashFails(p)
  \/ CreateReadingFails(p)
  \/ AddUserReadingFails(p)

StoreStep(p) ==
  \/ GetSourceByIdentifierAndType(p)
  \/ CreateReadingSource(p)
  \/ GetReadingByContentHash(p)
  \/ CreateReading(p)
  \/ AddUserReading(p)

(***************************************************************************)
(* Inbound messages                                                        *)
(***************************************************************************)

Envelope(attachments, html, text, subject, from) ==
  [Attachments |-> attachments, HTML |-> html, Text |-> text, Subject |-> subject,
   From |-> from]

Attachment(fileName, contentType, content) ==
  [FileName |-> fileName, ContentType |-> contentType, Content |-> content]

FromAlice ==
  [raw |-> <<"Alice <a@x>">>, ok |-> TRUE, Name |-> <<"Alice">>,
   Address |-> <<"a", "@", "x">>]

FromBare ==
  [raw |-> <<"b@x">>, ok |-> TRUE, Name |-> Empty, Address |-> <<"b", "@", "x">>]

\* A From header enmime.ParseAddressList rejects.
FromUnparseable ==
  [raw |-> <<"not an address">>, ok |-> FALSE, Name |-> Empty, Address |-> Empty]

AttPDF == Attachment(<<"a", ".", "p", "d", "f">>, <<"application/pdf">>, <<"%", "P", "D", "F">>)

AttTXT == Attachment(<<"n", ".", "t", "x", "t">>, <<"text/plain">>, <<"n", "o", "t", "e">>)

AttDOCX ==
  Attachment(<<"r", ".", "d", "o", "c", "x">>, <<"application/octet-stream">>, <<"P", "K">>)

AttMD == Attachment(<<"m", ".", "m", "d">>, <<"text/markdown">>, <<"#", " ", "m">>)

MsgEmpty == Envelope(<<>>, Empty, Empty, <<"Weekly Digest">>, FromAlice)

MsgHTMLTitled ==
  Envelope(<<>>, <<"<nav>", "<h1>", "<p>", "H", "i", "</p>">>, <<"H", "i">>,
           <<"Weekly Digest">>, FromAlice)

MsgHTMLPlain ==
  Envelope(<<>>, <<"<p>", "H", "o", "</p>">>, Empty, <<"Weekly Digest">>, FromAlice)

\* The content of MsgHTMLPlain under another subject and from another author.
MsgHTMLForwarded ==
  Envelope(<<>>, <<"<p>", "H", "o", "</p>">>, Empty, <<"Fwd: Weekly Digest">>, FromBare)

MsgText == Envelope(<<>>, Empty, <<"H", "e", "y">>, Empty, NoHeader)

MsgPDF == Envelope(<<AttPDF>>, Empty, Empty, <<"Report">>, FromAlice)

MsgTxtPdf == Envelope(<<AttTXT, AttPDF>>, <<"<p>", "s", "e", "e">>, Empty, Empty, FromBare)

MsgDOCX == Envelope(<<AttDOCX>>, Empty, Empty, <<"Report">>, FromAlice)

\* A document sent with a blank line as the text body.
MsgDOCXBlankBody == Envelope(<<AttDOCX>>, Empty, <<"\n">>, <<"Report">>, FromAlice)

MsgMD == Envelope(<<AttMD>>, Empty, <<"s", "e", "e">>, Empty, FromBare)

User1 == <<"uuid", 1, "user">>

User2 == <<"uuid", 2, "user">>

\* A recipient inbox+<id>@... whose <id> is no UUID.
UserNoUUID == <<"name", 3, "user">>

SenderLower == <<"a", "@", "x">>

SenderUpper == <<"A", "@", "X">>

SenderOther == <<"d", "@", "x">>

Messages ==
  {MsgEmpty, MsgHTMLTitled, MsgHTMLPlain, MsgHTMLForwarded, MsgText, MsgPDF, MsgTxtPdf,
   MsgDOCX, MsgDOCXBlankBody, MsgMD}

Users == {User1, User2, UserNoUUID}

Senders == {SenderLower, SenderUpper, SenderOther}

WebhookSubjects == {<<"Webhook Subject">>}

Request(userID, senderAddress, env) ==
  [userID |-> userID, senderAddress |-> senderAddress, env |-> env]

\* The requests handled one after the other: two messages of the same
\* content from every sender to every user, and every message once.
Requests ==
  {Request(u, a, m) : u \in Users, a \in Senders, m \in {MsgHTMLPlain, MsgHTMLForwarded}}
    \cup {Request(User1, SenderLower, m) : m \in Messages}

\* The requests handled concurrently.
ConcurrentRequests ==
  {Request(u, a, m) : u \in {User1, User2}, a \in {SenderLower, SenderUpper},
                      m \in {MsgHTMLPlain, MsgPDF}}

NoInput == [kind |-> "none"]

\* The scheduler between two ticks, at time 0.
IdleTick == [pc |-> "idle", now |-> 0, queue |-> <<>>, processed |-> 0, err |-> FALSE]

NoOutput == [done |-> FALSE]

EmptyStore ==
  /\ readings = {}
  /\ files = {}
  /\ editions = {}
  /\ editionReadings = {}
  /\ deliveries = {}
  /\ tick = IdleTick
  /\ sources = {}
  /\ userReadings = {}
  /\ run = [p \in Runs |-> IdleRun]
  /\ input = NoInput
  /\ output = NoOutput

\* NewConverter found pandoc.
Init == EmptyStore /\ pandocPath = <<"/usr/bin/pandoc">>

\* Requests handled concurrently, as the HTTP server runs them.
Receive(p) ==
  \E rq \in ConcurrentRequests, webhookSubject \in WebhookSubjects, callOK \in BOOLEAN :
    HandleInbound(p, rq.userID, rq.senderAddress, webhookSubject, rq.env, callOK)

Next == \E p \in Runs : Receive(p) \/ StoreStep(p)

Spec == Init /\ [][Next]_vars

\* NewConverter found pandoc, or found none.
InitSeq == EmptyStore /\ pandocPath \in {Empty, <<"/usr/bin/pandoc">>}

\* Requests handled one after the other: request p arrives when all before
\* it are finished.
ReceiveInTurn(p) ==
  /\ \A q \in Runs : q < p => Finished(q)
  /\ \E rq \in Requests, webhookSubject \in WebhookSubjects, callOK \in BOOLEAN :
       HandleInbound(p, rq.userID, rq.senderAddress, webhookSubject, rq.env, callOK)

NextSeq == \E p \in Runs : ReceiveInTurn(p) \/ StoreStep(p)

SpecSeq == InitSeq /\ [][NextSeq]_vars

\* The requests handled while calls of the store may fail.
FaultyRequests ==
  {Request(User1, SenderLower, MsgHTMLPlain),
   Request(UserNoUUID, SenderLower, MsgHTMLPlain),
   Request(User2, SenderLower, MsgDOCXBlankBody)}

ReceiveFaulty(p) ==
  \E rq \in FaultyRequests, webhookSubject \in WebhookSubjects, callOK \in BOOLEAN :
    HandleInbound(p, rq.userID, rq.senderAddress, webhookSubject, rq.env, callOK)

NextFaults == \E p \in Runs : ReceiveFaulty(p) \/ StoreStep(p) \/ StoreFault(p)

\* Requests handled concurrently over a database whose calls may fail.
SpecFaults == InitSeq /\ [][NextFaults]_vars

\* The requests whose context may be done.
CancellableRequests ==
  {Request(User1, SenderLower, m) : m \in {MsgHTMLPlain, MsgDOCX, MsgPDF}}

ReceiveCancellable(p) ==
  \E rq \in CancellableRequests, webhookSubject \in WebhookSubjects, callOK \in BOOLEAN,
     cancelledAt \in {"never", "conversion"} :
    HandleInboundWith(p, rq.userID, rq.senderAddress, webhookSubject, rq.env, callOK,
                      cancelledAt)

NextCancel ==
  \E p \in Runs :
    \/ ReceiveCancellable(p)
    \/ CancelRequest(p)
    \/ Live(p) /\ StoreStep(p)
    \/ Cancelled(p) /\ StoreFault(p)

\* Requests handled concurrently, each under a context that may be done at
\* any moment.
SpecCancel == Init /\ [][NextCancel]_vars

\* The callers of ProcessInboundEmail: HandleInbound, which may find no
\* sender, and a caller that passes none.
ReceiveAnonymous(p) ==
  \E rq \in Requests, webhookSubject \in WebhookSubjects, callOK \in BOOLEAN :
    \/ HandleInbound(p, rq.userID, rq.senderAddress, webhookSubject, rq.env, callOK)
    \/ HandleInbound(p, rq.userID, Empty, webhookSubject, rq.env, callOK)
    \/ ProcessInboundEmailWithoutSender(p, rq.userID, webhookSubject, rq.env, callOK)

NextAnonymous ==
  \E p \in Runs :
    \/ (\A q \in Runs : q < p => Finished(q)) /\ ReceiveAnonymous(p)
    \/ StoreStep(p)

\* Requests with and without sender, handled one after the other.
SpecAnonymous == InitSeq /\ [][NextAnonymous]_vars

(***************************************************************************)
(* scheduler.Scheduler                                                     *)
(*                                                                         *)
(* Time is counted in minutes.  A template is [ID, UserID, DeliveryInterval,*)
(* DeliveryTime, CreatedAt]; an edition is [ID, UserID, EditionTemplateID, *)
(* CreatedAt]; a delivery is [ID, EditionID, Status].                      *)
(***************************************************************************)

MaxClock == 11

SourceA == <<"uuid", 1, "source">>

ReadingA == <<"uuid", 1, "reading">>

ReadingB == <<"uuid", 2, "reading">>

NoEdition == <<"uuid", 0, "nil">>

\* A template with one assigned source.
TemplateWithSource ==
  [ID |-> <<"uuid", 1, "template">>, UserID |-> User1,
   DeliveryInterval |-> "every_five_minutes", DeliveryTime |-> "07:00:00", CreatedAt |-> 0]

\* A template without assigned source.
TemplateWithoutSource ==
  [ID |-> <<"uuid", 2, "template">>, UserID |-> User1,
   DeliveryInterval |-> "every_five_minutes", DeliveryTime |-> "07:00:00", CreatedAt |-> 0]

\* A template whose interval is none the scheduler knows.
TemplateUnknownInterval ==
  [ID |-> <<"uuid", 3, "template">>, UserID |-> User1,
   DeliveryInterval |-> "fortnightly", DeliveryTime |-> "07:00:00", CreatedAt |-> 0]

\* The rows of table edition_template_sources.
editionTemplateSources ==
  {[EditionTemplateID |-> TemplateWithSource.ID, SourceID |-> SourceA],
   [EditionTemplateID |-> TemplateUnknownInterval.ID, SourceID |-> SourceA]}

\* The rows of table edition_templates that recur.
RecurringTemplates == <<TemplateWithSource, TemplateWithoutSource, TemplateUnknownInterval>>

\* The rows of readings and reading_sources the scheduler finds.
StoredReading(id) ==
  [ID |-> id, SourceID |-> SourceA, Author |-> <<"Alice">>,
   ContentHash |-> GenerateHash(<<id[2]>>), ContentBody |-> Empty,
   Excerpt |-> <<"e">>, Format |-> ReadingFormatHTML,
   StoragePath |-> <<"readings/", User1, "/", id, ".", ReadingFormatHTML>>,
   Title |-> <<"t">>]

parseDeliveryTime(deliveryTime) == deliveryTime \in {"07:00:00", "0000-01-01T07:00:00Z"}

\* isDue for the intervals of the templates above.
isDue(interval, deliveryTime, since, now) ==
  IF ~parseDeliveryTime(deliveryTime) THEN FALSE
  ELSE IF interval = "every_five_minutes" THEN now >= since + 5
  ELSE FALSE

\* GetLatestEditionByTemplateID: ORDER BY created_at DESC LIMIT 1.
GetLatestEditionByTemplateID(templateID) ==
  {e \in editions :
     /\ e.EditionTemplateID = templateID
     /\ \A f \in editions : f.EditionTemplateID = templateID => f.CreatedAt <= e.CreatedAt}

Since(template) ==
  LET latest == GetLatestEditionByTemplateID(template.ID)
  IN  IF latest # {} THEN (CHOOSE e \in latest : TRUE).CreatedAt ELSE template.CreatedAt

GetSourceIDsForTemplate(templateID) ==
  {ts.SourceID : ts \in {x \in editionTemplateSources : x.EditionTemplateID = templateID}}

\* The calls processTemplate makes, in their order; one of them may fail.
\* The failure of AddReadingToEdition is not among them: it ends nothing.
TemplateFaults ==
  {"none", "GetLatestEditionByTemplateID", "GetSourceIDsForTemplate",
   "GetUserReadingsSinceBySourceIDs", "GetDefaultDestinationByUserID", "no destination",
   "CreateEdition", "GenerateEdition", "CreateDelivery", "GetEmailDestinationDetails",
   "Deliver"}

\* How far processTemplate comes with template at time now, when the store
\* answers GetUserReadingsSinceBySourceIDs with newReadings, the call fault
\* fails and AddReadingToEdition fails for the readings notAdded.
\* The result says which rows are written and what is returned.
Outcome(template, now, newReadings, fault, notAdded) ==
  LET since == Since(template)
      sourceIDs == GetSourceIDsForTemplate(template.ID)
      attached == newReadings \ notAdded
      skipped == [template |-> template, sourceIDs |-> {}, readings |-> {},
                  edition |-> NoEdition, attached |-> {}, delivery |-> "none",
                  sent |-> FALSE, ok |-> FALSE]
      atSources == [skipped EXCEPT !.sourceIDs = sourceIDs]
      atReadings == [atSources EXCEPT !.readings = newReadings]
      atEdition == [atReadings EXCEPT
                      !.edition = <<"uuid", Cardinality(editions) + 1, "edition">>,
                      !.attached = attached]
  IN  IF fault = "GetLatestEditionByTemplateID" THEN skipped
      ELSE IF ~isDue(template.DeliveryInterval, template.DeliveryTime, since, now) THEN skipped
      ELSE IF fault = "GetSourceIDsForTemplate" THEN skipped
      ELSE IF sourceIDs = {} THEN atSources
      ELSE IF fault = "GetUserReadingsSinceBySourceIDs" THEN atSources
      ELSE IF newReadings = {} THEN atReadings
      ELSE IF fault \in {"GetDefaultDestinationByUserID", "no destination", "CreateEdition"}
      THEN atReadings
      \* ProcessAndGenerateEdition: no readings found for the edition
      ELSE IF attached = {} THEN atEdition
      ELSE IF fault \in {"GenerateEdition", "CreateDelivery"} THEN atEdition
      ELSE IF fault = "GetEmailDestinationDetails"
      THEN [atEdition EXCEPT !.delivery = "pending"]
      ELSE IF fault = "Deliver"
      THEN [atEdition EXCEPT !.delivery = "failed"]
      ELSE [atEdition EXCEPT !.delivery = "delivered", !.sent = TRUE, !.ok = TRUE]

\* processTemplate, with the rows it writes.
processTemplate(template, newReadings, fault, notAdded) ==
  LET o == Outcome(template, tick.now, newReadings, fault, notAdded)
  IN  /\ editions' =
           IF o.edition = NoEdition THEN editions
           ELSE editions \cup {[ID |-> o.edition, UserID |-> template.UserID,
                                EditionTemplateID |-> template.ID,
                                CreatedAt |-> tick.now]}
      /\ editionReadings' =
           editionReadings \cup {[EditionID |-> o.edition, ReadingID |-> r] : r \in o.attached}
      /\ deliveries' =
           IF o.delivery = "none" THEN deliveries
           ELSE deliveries \cup {[ID |-> <<"uuid", Cardinality(deliveries) + 1, "delivery">>,
                                  EditionID |-> o.edition, Status |-> o.delivery]}
      /\ tick' = [pc |-> IF Len(tick.queue) = 1 THEN "idle" ELSE "running",
                  now |-> tick.now,
                  queue |-> Tail(tick.queue),
                  processed |-> tick.processed + (IF o.ok THEN 1 ELSE 0),
                  err |-> FALSE,
                  last |-> o]

\* Tick up to its loop: the recurring templates are fetched, or the fetch
\* fails and Tick returns the error.
TickStarts ==
  /\ tick.pc = "idle"
  /\ \E fetched \in BOOLEAN :
       tick' = IF fetched
               THEN [pc |-> "running", now |-> tick.now, queue |-> RecurringTemplates,
                     processed |-> 0, err |-> FALSE]
               ELSE [pc |-> "idle", now |-> tick.now, queue |-> <<>>, processed |-> 0,
                     err |-> TRUE]
  /\ UNCHANGED <<storeVars, pandocPath, files, editions, editionReadings, deliveries, run,
                 input, output>>

\* One round of the loop of Tick.
TickProcessesTemplate ==
  /\ tick.pc = "running"
  /\ \E newReadings \in SUBSET {r.ID : r \in readings}, fault \in TemplateFaults :
       \E notAdded \in SUBSET newReadings :
         processTemplate(Head(tick.queue), newReadings, fault, notAdded)
  /\ UNCHANGED <<storeVars, pandocPath, files, run, input, output>>

\* A minute passes.
ClockAdvances ==
  /\ tick.now < MaxClock
  /\ tick' = [tick EXCEPT !.now = @ + 1]
  /\ UNCHANGED <<storeVars, pandocPath, files, editions, editionReadings, deliveries, run,
                 input, output>>

InitScheduler ==
  /\ readings = {StoredReading(ReadingA), StoredReading(ReadingB)}
  /\ sources = {[ID |-> SourceA, Name |-> SenderLower, Type |-> "email",
                 Identifier |-> SenderLower]}
  /\ userReadings = {[user_id |-> User1, reading_id |-> ReadingA, received_at |-> 0],
                      [user_id |-> User1, reading_id |-> ReadingB, received_at |-> 0]}
  /\ files = {}
  /\ editions = {}
  /\ editionReadings = {}
  /\ deliveries = {}
  /\ tick = IdleTick
  /\ run = [p \in Runs |-> IdleRun]
  /\ pandocPath = Empty
  /\ input = NoInput
  /\ output = NoOutput

NextScheduler == TickStarts \/ TickProcessesTemplate \/ ClockAdvances

\* The scheduler ticking as time passes, over a store whose calls may fail.
SpecScheduler == InitScheduler /\ [][NextScheduler]_vars

(***************************************************************************)
(* The assembly of a reading from one message, applied on its own          *)
(***************************************************************************)

MaxAttachments == 2

\* A payload of n bytes.
Payload(n) == [i \in 1..n |-> "x"]

DOCXType == <<"application/vnd.openxmlformats-officedocument.wordprocessingml.document">>

AttachmentKinds ==
  { AttPDF, AttTXT, AttDOCX, AttMD,
    Attachment(<<"A", ".", "P", "D", "F">>, <<"application/octet-stream">>, <<"%">>),
    Attachment(<<".", "p", "d", "f">>, <<"application/pdf">>, <<"%">>),
    Attachment(<<"s", ".", "b", "i", "n">>, <<"application/pdf">>, Payload(minAttachmentSizeBytes - 1)),
    Attachment(<<"b", ".", "b", "i", "n">>, <<"application/pdf">>, Payload(minAttachmentSizeBytes)),
    Attachment(<<"d", ".", "d", "a", "t">>, DOCXType, Payload(minAttachmentSizeBytes)),
    Attachment(<<"t", ".", "t", "e", "x", "t">>, <<"text/plain">>, <<"t">>),
    Attachment(<<"T", ".", "t", "e", "x", "t">>, <<"text/plain", "charset=utf-8">>,
               Payload(minAttachmentSizeBytes)),
    Attachment(<<"p", "l", "a", "i", "n">>, <<"text/plain">>, Payload(minAttachmentSizeBytes)),
    Attachment(<<"e", ".", "e", "p", "u", "b">>, <<"application/epub+zip">>, <<"e">>),
    Attachment(<<"k", ".", "m", "o", "b", "i">>, <<"application/octet-stream">>, <<"k">>),
    Attachment(<<"z", ".", "r", "t", "f">>, <<"text/rtf">>, Empty),
    Attachment(<<"i", ".", "p", "n", "g">>, <<"image/png">>, Payload(minAttachmentSizeBytes)) }

RECURSIVE SeqsUpTo(_, _)
SeqsUpTo(S, n) ==
  IF n = 0 THEN {<<>>}
  ELSE LET shorter == SeqsUpTo(S, n - 1)
       IN  shorter \cup {Append(q, x) : q \in shorter, x \in S}

Envelopes ==
  { Envelope(atts, html, text, subject, from) :
      atts \in SeqsUpTo(AttachmentKinds, MaxAttachments),
      html \in {Empty, <<"<h1>", "<p>", "H", "i">>, <<"<p>", "H", "o">>, <<"<script>">>},
      text \in {Empty, <<"H", "e", "y">>},
      subject \in {Empty, <<"Weekly Digest">>},
      from \in {FromAlice} }

InitAssemble ==
  /\ readings = {}
  /\ files = {}
  /\ editions = {}
  /\ editionReadings = {}
  /\ deliveries = {}
  /\ tick = IdleTick
  /\ sources = {}
  /\ userReadings = {}
  /\ run = [p \in Runs |-> IdleRun]
  /\ pandocPath = Empty
  /\ input \in { [kind |-> "assemble", env |-> e, webhookSubject |-> w, pandoc |-> pd] :
                   e \in Envelopes, w \in {Empty, <<"Webhook Subject">>},
                   pd \in {"absent", "ok"} }
  /\ output = NoOutput

ApplyAssemble ==
  /\ input.kind = "assemble"
  /\ ~output.done
  /\ output' = [done |-> TRUE,
                asm |-> Assemble(input.env, input.webhookSubject, input.pandoc)]
  /\ UNCHANGED <<storeVars, pandocPath, files, editionVars, run, input>>

NextAssemble == ApplyAssemble

SpecAssemble == InitAssemble /\ [][NextAssemble]_vars

(***************************************************************************)
(* generateExcerptFromText applied on its own                              *)
(***************************************************************************)

MaxTextLen == 400

\* A text of n characters: a sentence end at period, a space at space, the
\* first wide characters two bytes long, padded with white space.
TextOf(n, period, space, wide) ==
  <<" ">> \o
  [i \in 1..n |->
     IF period > 0 /\ i = period THEN "."
     ELSE IF (period > 0 /\ i = period + 1) \/ i = space THEN " "
     ELSE IF i <= wide THEN "é" ELSE "a"]
  \o <<"\n">>

Texts ==
  { TextOf(n, period, space, wide) :
      n \in {0, 1, 200, maxLength, maxLength + 1, 300, MaxTextLen},
      period \in {0, 100, 176, 177, 200, 249},
      space \in {0, 100, 151, 152, 240},
      wide \in {0, 60, 130} }

InitExcerpt ==
  /\ readings = {}
  /\ files = {}
  /\ editions = {}
  /\ editionReadings = {}
  /\ deliveries = {}
  /\ tick = IdleTick
  /\ sources = {}
  /\ userReadings = {}
  /\ run = [p \in Runs |-> IdleRun]
  /\ pandocPath = Empty
  /\ input \in { [kind |-> "excerpt", text |-> t, spare |-> sp] :
                   t \in Texts, sp \in {0, 5} }
  /\ output = NoOutput

ApplyExcerpt ==
  /\ input.kind = "excerpt"
  /\ ~output.done
  /\ output' = [done |-> TRUE,
                excerpt |-> generateExcerptFromText(input.text, input.spare)]
  /\ UNCHANGED <<storeVars, pandocPath, files, editionVars, run, input>>

NextExcerpt == ApplyExcerpt

SpecExcerpt == InitExcerpt /\ [][NextExcerpt]_vars

(***************************************************************************)
(* Converter.ToHTML and ContentProcessor.Process applied on their own      *)
(***************************************************************************)

MaxMarkupLen == 3

\* A format tag the converter does not know.
ReadingFormatUnknown == "odt"

ConverterInputs ==
  { [kind |-> "toHTML", bytes |-> b, format |-> f, pandoc |-> pd] :
      b \in {Empty, <<"P", "K">>, <<"#", " ", "m">>, <<"<p>", "H", "i", "</p>">>},
      f \in {ReadingFormatHTML, ReadingFormatPDF, ReadingFormatEPUB, ReadingFormatMOBI,
             ReadingFormatTXT, ReadingFormatMD, ReadingFormatDOCX, ReadingFormatRTF,
             ReadingFormatUnknown},
      pd \in PandocStates }

ProcessorInputs ==
  { [kind |-> "process", rawHTML |-> h] :
      h \in SeqsUpTo({"<script>", "<nav>", "<h1>", "<p>", "<bad>", "H"}, MaxMarkupLen) }

AuthorInputs ==
  { [kind |-> "author", env |-> [From |-> f]] :
      f \in {NoHeader, FromAlice, FromBare, FromUnparseable} }

InitFunctions ==
  /\ readings = {}
  /\ files = {}
  /\ editions = {}
  /\ editionReadings = {}
  /\ deliveries = {}
  /\ tick = IdleTick
  /\ sources = {}
  /\ userReadings = {}
  /\ run = [p \in Runs |-> IdleRun]
  /\ pandocPath = Empty
  /\ input \in ConverterInputs \cup ProcessorInputs \cup AuthorInputs
  /\ output = NoOutput

ApplyToHTML ==
  /\ input.kind = "toHTML"
  /\ ~output.done
  /\ output' = [done |-> TRUE, conv |-> ToHTML(input.bytes, input.format, input.pandoc)]
  /\ UNCHANGED <<storeVars, pandocPath, files, editionVars, run, input>>

ApplyProcess ==
  /\ input.kind = "process"
  /\ ~output.done
  /\ output' = [done |-> TRUE, res |-> Process(input.rawHTML)]
  /\ UNCHANGED <<storeVars, pandocPath, files, editionVars, run, input>>

ApplyExtractAuthor ==
  /\ input.kind = "author"
  /\ ~output.done
  /\ output' = [done |-> TRUE, author |-> extractAuthorFromEnv(input.env)]
  /\ UNCHANGED <<storeVars, pandocPath, files, editionVars, run, input>>

NextFunctions == ApplyToHTML \/ ApplyProcess \/ ApplyExtractAuthor

SpecFunctions == InitFunctions /\ [][NextFunctions]_vars

(***************************************************************************)
(* Properties of the choice of the primary content                         *)
(***************************************************************************)

Assembled == input.kind = "assemble" /\ output.done

Tier(ext, format, types) == [ext |-> ext, format |-> format, types |-> types]

\* The priority entries as the orchestrator lists them.
EntryTiers ==
  << Tier(<<".", "p", "d", "f">>, "pdf", {"application/pdf"}),
     Tier(<<".", "e", "p", "u", "b">>, "epub", {}),
     Tier(<<".", "m", "o", "b", "i">>, "mobi", {}),
     Tier(<<".", "d", "o", "c", "x">>, "docx",
          {"application/vnd.openxmlformats-officedocument.wordprocessingml.document"}),
     Tier(<<".", "r", "t", "f">>, "rtf", {"application/rtf", "text/rtf"}),
     Tier(<<".", "m", "d">>, "md", {"text/markdown"}),
     Tier(<<".", "t", "x", "t">>, "txt", {"text/plain"}),
     Tier(<<".", "t", "e", "x", "t">>, "txt", {"text/plain"}) >>

\* The seven format tiers: one tier per format, .txt and .text together.
FormatTiers == <<"pdf", "epub", "mobi", "docx", "rtf", "md", "txt">>

HasExtension(att, ext) == ToLower(Ext(att.FileName)) = ext

QualifiesForEntry(att, k) ==
  \/ HasExtension(att, EntryTiers[k].ext)
  \/ /\ Len(att.Content) >= 100
     /\ att.ContentType # Empty
     /\ Head(att.ContentType) \in EntryTiers[k].types
     /\ EntryTiers[k].format = "txt" =>
          \/ HasExtension(att, <<".", "t", "x", "t">>)
          \/ HasExtension(att, <<".", "t", "e", "x", "t">>)

QualifiesForFormat(att, k) ==
  \E e \in 1..Len(EntryTiers) :
    EntryTiers[e].format = FormatTiers[k] /\ QualifiesForEntry(att, e)

MinOf(S) == CHOOSE x \in S : \A y \in S : x <= y

\* The primary content is the first attachment, in message order, that
\* qualifies for the first of the n tiers that any attachment qualifies for;
\* without one it is the HTML body, without that the text body, and without
\* that there is none.
SelectionFollows(Qualifies(_, _), n, FormatOf(_)) ==
  LET atts == input.env.Attachments
      primary == output.asm.primary
      hits(k) == {i \in 1..Len(atts) : Qualifies(atts[i], k)}
      tiers == {k \in 1..n : hits(k) # {}}
  IN  IF tiers # {}
      THEN /\ ~primary.err
           /\ primary.isAttachment
           /\ primary.format = FormatOf(MinOf(tiers))
           /\ primary.rawContentBytes = atts[MinOf(hits(MinOf(tiers)))].Content
           /\ primary.originalFileName = atts[MinOf(hits(MinOf(tiers)))].FileName
      ELSE IF input.env.HTML # Empty
      THEN /\ ~primary.err
           /\ ~primary.isAttachment
           /\ primary.format = "html"
           /\ primary.rawContentBytes = input.env.HTML
      ELSE IF input.env.Text # Empty
      THEN /\ ~primary.err
           /\ ~primary.isAttachment
           /\ primary.format = "txt"
           /\ primary.rawContentBytes = input.env.Text
      ELSE primary.err

TxtAndPdfYieldPdf ==
  LET atts == input.env.Attachments
  IN  (/\ \E i \in 1..Len(atts) : HasExtension(atts[i], <<".", "t", "x", "t">>)
       /\ \E i \in 1..Len(atts) : HasExtension(atts[i], <<".", "p", "d", "f">>))
      => output.asm.primary.format = "pdf"

RECURSIVE FirstNonEmpty(_)
FirstNonEmpty(candidates) ==
  IF Len(candidates) = 1 \/ Head(candidates) # Empty THEN Head(candidates)
  ELSE FirstNonEmpty(Tail(candidates))

\* The file name up to its last dot.
WithoutExtension(fileName) ==
  LET dots == {i \in 1..Len(fileName) : fileName[i] = "."}
  IN  IF dots = {} THEN fileName
      ELSE SubSeq(fileName, 1, (CHOOSE i \in dots : \A j \in dots : j <= i) - 1)

TitleOfExtraction ==
  output.asm.reading.Title =
    FirstNonEmpty(<< output.asm.processedHTMLDataForBuilder.ExtractedTitle,
                     input.env.Subject, input.webhookSubject, <<"Untitled Reading">> >>)

TitleOfFile ==
  output.asm.reading.Title =
    FirstNonEmpty(<< WithoutExtension(output.asm.primary.originalFileName),
                     input.env.Subject, input.webhookSubject, <<"Untitled Attachment">> >>)

WeeklyDigestCase ==
  /\ ~output.asm.primary.isAttachment
  /\ output.asm.primary.format = "html"
  /\ output.asm.processedHTMLDataForBuilder.ExtractedTitle = Empty
  /\ input.env.Subject = <<"Weekly Digest">>

\* C8 as claimed: the title of body-origin content is the first non-empty of
\* extracted title, Subject header, webhook subject, "Untitled Reading"; the
\* title of attachment-origin content is the first non-empty of file name
\* minus extension, Subject header, webhook subject, "Untitled Attachment".
C8_TitleByOrigin ==
  (Assembled /\ output.asm.outcome = "ok") =>
    /\ IF output.asm.primary.isAttachment THEN TitleOfFile ELSE TitleOfExtraction
    /\ WeeklyDigestCase => output.asm.reading.Title = <<"Weekly Digest">>

\* C8 as amended: the chain is chosen by the form the content is stored in,
\* not by its origin.  Content stored as html (a body, or an attachment that
\* was converted to html) takes extracted title, Subject header, webhook
\* subject, "Untitled Reading"; content stored as a file in its own format
\* takes file name minus extension, Subject header, webhook subject,
\* "Untitled Attachment".  An HTML body without extractable title under the
\* Subject "Weekly Digest" is titled "Weekly Digest".
C8_TitleByStoredForm ==
  (Assembled /\ output.asm.outcome = "ok") =>
    /\ IF output.asm.finalFormatForReading = "html" THEN TitleOfExtraction ELSE TitleOfFile
    /\ WeeklyDigestCase => output.asm.reading.Title = <<"Weekly Digest">>

\* C8: an HTML body without extractable title, titled by its Subject header.
C8_Witness ==
  /\ Assembled
  /\ output.asm.outcome = "ok"
  /\ WeeklyDigestCase
  /\ output.asm.reading.Title = <<"Weekly Digest">>

(***************************************************************************)
(* Properties of the excerpt                                               *)
(***************************************************************************)

Excerpted == input.kind = "excerpt" /\ output.done

\* C9: the excerpt, ellipsis included, is at most 250 characters long.
C9_ExcerptAtMostMaxLength ==
  (Excerpted /\ ~output.excerpt.panic) => Len(output.excerpt.text) <= 250

(***************************************************************************)
(* Properties of the store                                                 *)
(***************************************************************************)

OneRowPerContentHash ==
  \A r1, r2 \in readings : r1.ContentHash = r2.ContentHash => r1 = r2

OneSourcePerIdentifier ==
  \A s1, s2 \in sources :
    (s1.Type = s2.Type /\ s1.Identifier = s2.Identifier) => s1 = s2

AllFinished == \A p \in Runs : Finished(p)

Linked(userID, readingID) ==
  \E l \in userReadings : l.user_id = userID /\ l.reading_id = readingID

\* C1: after runs that do not overlap there is one Reading row per content
\* hash; a run whose content is already stored adds no row and ends with the
\* identifier of the row the first ingestion created, and its user, when it
\* is a user the store knows by a UUID, is linked to that identifier.
C1_DedupIdempotent ==
  /\ OneRowPerContentHash
  /\ \A p \in Runs : Succeeded(p) =>
       /\ \E r \in readings : /\ r.ContentHash = run[p].reading.ContentHash
                              /\ r.ID = run[p].reading.ID
       /\ IsUUID(run[p].userID) => Linked(run[p].userID, run[p].reading.ID)
  /\ \A p, q \in Runs :
       (/\ p < q /\ Succeeded(p) /\ Succeeded(q)
        /\ run[p].reading.ContentHash = run[q].reading.ContentHash)
       => /\ run[q].reading.ID = run[p].reading.ID
          /\ run[q].reading.ID # NewUUID(q, "reading")

\* C1: two users have ingested the same content one after the other.
C1_Witness ==
  /\ Succeeded(1) /\ Succeeded(2)
  /\ run[1].userID = User1 /\ run[2].userID = User2
  /\ run[1].reading.ContentHash = run[2].reading.ContentHash
  /\ Cardinality(readings) = 1
  /\ Linked(User1, NewUUID(1, "reading"))
  /\ Linked(User2, NewUUID(1, "reading"))

\* C2: when concurrent runs with the same content hash have all finished,
\* the store holds at most one Reading row with that hash.
C2_ConcurrentDedup == AllFinished => OneRowPerContentHash

IsLowerCaseOf(l, s) ==
  /\ Len(l) = Len(s)
  /\ \A i \in 1..Len(s) :
       l[i] = (IF s[i] \in DOMAIN UpperMap THEN UpperMap[s[i]] ELSE s[i])

HasResolvedSource(p) ==
  run[p].pc \in {"GetReading", "CreateReading", "AddUserReading"} \/ Succeeded(p)

\* C3: after runs that do not overlap every sender address has one source,
\* of type "email", named and identified by the lower-cased address; a run
\* for an address seen before, in any letter case, takes that source.
C3_SourceAutoDiscovery ==
  /\ OneSourcePerIdentifier
  /\ \A s \in sources : s.Type = "email" /\ s.Name = s.Identifier
  /\ \A p \in Runs : HasResolvedSource(p) =>
       \E s \in sources : /\ IsLowerCaseOf(s.Identifier, run[p].senderAddress)
                          /\ run[p].reading.SourceID = s.ID
  /\ \A s \in sources :
       \E p \in Runs : /\ s.ID = NewUUID(p, "source")
                       /\ IsLowerCaseOf(s.Identifier, run[p].senderAddress)
                       /\ \A q \in Runs :
                            (q < p /\ HasResolvedSource(q)) =>
                              ~IsLowerCaseOf(s.Identifier, run[q].senderAddress)

\* C3: the same address in two letter cases, one source.
C3_Witness ==
  /\ Succeeded(1) /\ Succeeded(2)
  /\ run[1].senderAddress = SenderLower /\ run[2].senderAddress = SenderUpper
  /\ Cardinality(sources) = 1
  /\ run[2].reading.SourceID = NewUUID(1, "source")

\* C4: when concurrent first sightings of one sender address have all
\* finished, one source has that (type, identifier) pair and every Reading
\* the runs created references it.
C4_ConcurrentSourceCreation ==
  AllFinished =>
    /\ OneSourcePerIdentifier
    /\ \A p \in Runs, r \in readings :
         (Succeeded(p) /\ r.ID = NewUUID(p, "reading")) =>
           \A s \in sources :
             s.Identifier = run[p].actualSenderEmail => r.SourceID = s.ID

HasNoContent(env) == env.Attachments = <<>> /\ env.HTML = Empty /\ env.Text = Empty

\* C6: a run for a message without attachments, HTML body and text body
\* fails with the no-processable-content error and writes no Reading row
\* and no UserReading link.
C6_EmptyContentRejected ==
  \A p \in Runs : (run[p].pc # "idle" /\ HasNoContent(run[p].env)) =>
    /\ run[p].pc = "done"
    /\ run[p].result = "no usable primary content found"
    /\ ~\E r \in readings : r.ID = NewUUID(p, "reading")
    /\ ~\E l \in userReadings : l.received_at = p

\* C6: an empty message was rejected after another message was stored.
C6_Witness ==
  /\ Succeeded(1)
  /\ run[2].pc = "done"
  /\ HasNoContent(run[2].env)
  /\ run[2].result = "no usable primary content found"
  /\ Cardinality(readings) = 1

ConvertibleAttachment(env) ==
  /\ identifyPrimaryContent(env).isAttachment
  /\ identifyPrimaryContent(env).format \in
       {ReadingFormatDOCX, ReadingFormatRTF, ReadingFormatMD}

\* C7: without the conversion utility, a run whose primary content is a
\* docx, rtf or markdown attachment succeeds and stores a Reading of the
\* original format whose content hash is that of the original bytes.
C7_ConverterUnavailable ==
  pandocPath = Empty =>
    \A p \in Runs : (Finished(p) /\ ConvertibleAttachment(run[p].env)) =>
      /\ Succeeded(p)
      /\ \E r \in readings :
           /\ r.ID = run[p].reading.ID
           /\ r.Format = identifyPrimaryContent(run[p].env).format
           /\ r.ContentHash =
                GenerateHash(identifyPrimaryContent(run[p].env).rawContentBytes)

TakesDuplicateBranch(p) ==
  run[p].pc = "GetReading" /\ run'[p].pc = "AddUserReading"

\* C10: no step changes or removes a Reading row; new rows come from
\* CreateReading only; the duplicate branch leaves the rows as they are and
\* gives the run the identifier and the storage path of a row that has its
\* content hash.
C10_ExistingReadingsUntouched ==
  [][/\ readings \subseteq readings'
     /\ readings' # readings => \E p \in Runs : run[p].pc = "CreateReading"
     /\ \A p \in Runs : TakesDuplicateBranch(p) =>
          /\ readings' = readings
          /\ \E r \in readings :
               /\ r.ContentHash = run[p].reading.ContentHash
               /\ run'[p].reading.ID = r.ID
               /\ run'[p].reading.StoragePath = r.StoragePath
               /\ run'[p].reading.ID # NewUUID(p, "reading")]_vars

\* C10: a run has finished on the duplicate branch, for another user than
\* the one whose run created the row.
C10_Witness ==
  \E p \in Runs, r \in readings :
    /\ Succeeded(p)
    /\ r.ID # NewUUID(p, "reading")
    /\ run[p].reading.ID = r.ID
    /\ run[p].reading.StoragePath = r.StoragePath
    /\ r.StoragePath[2] # run[p].userID
    /\ Linked(run[p].userID, r.ID)

(***************************************************************************)
(* Properties of the links between users and readings                      *)
(***************************************************************************)

OneLinkPerUserAndReading(links) ==
  \A l1, l2 \in links :
    (l1.user_id = l2.user_id /\ l1.reading_id = l2.reading_id) => l1 = l2

ReturnsFromLinking(p) == run[p].pc = "AddUserReading" /\ run'[p].pc = "done"

\* C11: under any interleaving there is at most one UserReading link per
\* (user, reading) pair; a run that links a user who is linked to the reading
\* already leaves the links as they are and returns success without an error
\* of the link.
C11_OneLinkPerUserAndReading ==
  [][/\ OneLinkPerUserAndReading(userReadings')
     /\ \A p \in Runs :
          (ReturnsFromLinking(p) /\ Linked(run[p].userID, run[p].reading.ID)) =>
            /\ userReadings' = userReadings
            /\ run'[p].result = "ok"
            /\ ~run'[p].linkErr]_vars

\* C11: one user has ingested the same document twice and has one link.
C11_Witness ==
  /\ Succeeded(1) /\ Succeeded(2)
  /\ run[1].userID = run[2].userID
  /\ run[1].reading.ID = run[2].reading.ID
  /\ Cardinality(userReadings) = 1

ReadingExists(readingID) == \E r \in readings : r.ID = readingID

\* C13: a run whose lookup by hash or whose creation of the Reading failed
\* returns an error and writes no link; every link refers to a Reading row
\* that exists.
C13_NoLinkWithoutReading ==
  /\ \A l \in userReadings : ReadingExists(l.reading_id)
  /\ \A p \in Runs : Succeeded(p) => ReadingExists(run[p].reading.ID)
  /\ \A p \in Runs : (Finished(p) /\ ~Succeeded(p)) =>
       ~\E l \in userReadings : l.received_at = p

\* C13: the creation of a Reading has failed beside a run that stored and
\* linked one.
C13_Witness ==
  \E p, q \in Runs :
    /\ Finished(p)
    /\ run[p].result = "failed to save reading record to database"
    /\ ~ReadingExists(NewUUID(p, "reading"))
    /\ Succeeded(q)
    /\ Linked(run[q].userID, run[q].reading.ID)

LinkFailed(p) == Finished(p) /\ "linkErr" \in DOMAIN run[p] /\ run[p].linkErr

\* C14: a run whose link failed after its Reading was created or reused
\* returns success all the same, and the Reading row is in the store.
C14_LinkFailureNotFatal ==
  \A p \in Runs : LinkFailed(p) =>
    /\ Succeeded(p)
    /\ ReadingExists(run[p].reading.ID)

\* C14: the link of a known user has failed in the database; the run has
\* succeeded and its Reading is stored without the link.
C14_Witness ==
  \E p \in Runs :
    /\ LinkFailed(p)
    /\ IsUUID(run[p].userID)
    /\ Succeeded(p)
    /\ ReadingExists(run[p].reading.ID)
    /\ ~Linked(run[p].userID, run[p].reading.ID)

(***************************************************************************)
(* Properties of the stored content                                        *)
(***************************************************************************)

\* C15: in every reachable state, failures of the store included, the
\* content a Reading row points at has been written: its storage path is a
\* written file, or the row carries the content body.
C15_ContentStoredBeforeRecord ==
  \A r \in readings : r.StoragePath \in files \/ r.ContentBody # Empty

(***************************************************************************)
(* Properties of cancellation                                              *)
(***************************************************************************)

\* The conversion utility has run to its end for request p.
ConversionCompleted(p) ==
  /\ ConvertibleAttachment(run[p].env)
  /\ "formatForStorage" \in DOMAIN run[p]
  /\ run[p].formatForStorage = ReadingFormatHTML

\* C16: once the context of a request is done, its conversion is cancelled
\* and every later call of the store fails: a context done before the
\* content is processed leaves no converted content, and nothing is written
\* by a call that comes after the context was done.
C16_CancellationThreaded ==
  \A p \in Runs : run[p].pc # "idle" =>
    /\ run[p].cancelledAt = "conversion" => ~ConversionCompleted(p)
    /\ run[p].cancelledAt \in {"conversion", "GetSource", "CreateSource"} =>
         ~\E s \in sources : s.ID = NewUUID(p, "source")
    /\ run[p].cancelledAt \in {"conversion", "GetSource", "CreateSource", "GetReading",
                               "CreateReading"} =>
         ~ReadingExists(NewUUID(p, "reading"))
    /\ run[p].cancelledAt # "never" => ~\E l \in userReadings : l.received_at = p

\* C19: a run with an empty sender that has content resolves to the
\* no-source sentinel, creates no source, succeeds, and a Reading with the
\* sentinel as its source is stored.
C19_EmptySenderStillIngested ==
  \A p \in Runs :
    (Finished(p) /\ run[p].actualSenderEmail = Empty
       /\ run[p].result # "could not determine sender"
       /\ run[p].env \in {MsgHTMLPlain, MsgPDF, MsgText}) =>
      /\ Succeeded(p)
      /\ ~\E s \in sources : s.ID = NewUUID(p, "source")
      /\ \E r \in readings : r.ID = run[p].reading.ID /\ r.SourceID = NilUUID

(***************************************************************************)
(* Properties of the processing of the primary content                     *)
(***************************************************************************)

HTMLBodyChosen ==
  /\ ~output.asm.primary.err
  /\ ~output.asm.primary.isAttachment
  /\ output.asm.primary.format = ReadingFormatHTML

\* C17: when ContentProcessor.Process reports that cleaning and extraction
\* left nothing of the HTML body, ProcessInboundEmail returns an error and
\* builds no Reading.
C17_EmptyProcessedContentFatal ==
  (Assembled /\ HTMLBodyChosen /\ Process(input.env.HTML).err) =>
    output.asm.outcome # "ok"

QualifiesSomewhere(att) ==
  \E k \in 1..Len(priorityOrder) : checkAttachmentAgainstPriority(att, priorityOrder[k]).found

HasProcessablePart(env) ==
  \/ env.HTML # Empty
  \/ env.Text # Empty
  \/ \E i \in 1..Len(env.Attachments) :
       QualifiesSomewhere(env.Attachments[i]) /\ env.Attachments[i].Content # Empty

\* C18: for a message with a non-empty HTML body, a non-empty text body or
\* a non-empty qualifying attachment, ProcessInboundEmail comes to the store
\* with a Reading to save: no stage before the store ends it with an error.
C18_OnlyNothingToStoreIsFatal ==
  (Assembled /\ HasProcessablePart(input.env)) => output.asm.outcome = "ok"

DirectAttachmentChosen ==
  /\ ~output.asm.primary.err
  /\ output.asm.primary.isAttachment
  /\ output.asm.primary.format \in {ReadingFormatPDF, ReadingFormatEPUB, ReadingFormatMOBI}

\* C20: a pdf, epub or mobi attachment passes neither the converter nor the
\* extractor: the bytes hashed and handed on for storage are the raw bytes
\* of the attachment and the format of the Reading is the original one,
\* whatever the state of the conversion utility.
C20_DirectFormatsVerbatim ==
  (Assembled /\ DirectAttachmentChosen /\ output.asm.primary.rawContentBytes # Empty) =>
    /\ output.asm.outcome = "ok"
    /\ output.asm.builder = "file"
    /\ output.asm.processedHTMLDataForBuilder.nil
    /\ output.asm.finalContentToStore = output.asm.primary.rawContentBytes
    /\ output.asm.finalFormatForReading = output.asm.primary.format
    /\ output.asm.reading.Format = output.asm.primary.format
    /\ output.asm.reading.ContentHash = GenerateHash(output.asm.primary.rawContentBytes)

\* C20: an epub sent beside an HTML body, with the conversion utility at
\* hand, is kept as it came.
C20_Witness ==
  /\ Assembled
  /\ DirectAttachmentChosen
  /\ input.pandoc = "ok"
  /\ input.env.HTML # Empty
  /\ output.asm.primary.format = ReadingFormatEPUB
  /\ output.asm.outcome = "ok"
  /\ output.asm.finalContentToStore = <<"e">>
  /\ output.asm.reading.Format = ReadingFormatEPUB

(***************************************************************************)
(* Properties of the content hash                                          *)
(***************************************************************************)

\* The row request p has inserted, if any.
RowsInsertedBy(p) == {r \in readings : r.ID = NewUUID(p, "reading")}

NothingToIngest == {"no usable primary content found"}

PersistenceFaults ==
  {"failed to check for duplicate content", "failed to save reading record to database"}

\* C22: a request that ends for want of content to ingest is answered with
\* status 200, and status 500 is answered only to a request that ended on
\* a failed call of the store.
C22_NothingToIngestAcknowledged ==
  \A p \in Runs :
    Finished(p) =>
      /\ run[p].result \in NothingToIngest => StatusOf(run[p].result) = 200
      /\ StatusOf(run[p].result) >= 500 => run[p].result \in PersistenceFaults

(***************************************************************************)
(* Properties of the scheduler                                             *)
(***************************************************************************)

TemplateProcessed == "last" \in DOMAIN tick

Attached(editionID) == {er \in editionReadings : er.EditionID = editionID}

\* C23: a template without assigned sources or without new readings gets no
\* edition, no delivery and nothing is sent for it; and every edition in
\* the store has at least one reading attached.
C23_NoEmptyEdition ==
  /\ TemplateProcessed =>
       ((tick.last.sourceIDs = {} \/ tick.last.readings = {}) =>
          /\ tick.last.edition = NoEdition
          /\ tick.last.delivery = "none"
          /\ ~tick.last.sent)
  /\ \A e \in editions : Attached(e.ID) # {}

(***************************************************************************)
(* Properties of the order of the stages                                   *)
(***************************************************************************)

DuplicateLookupDone(p) ==
  \/ run[p].pc \in {"CreateReading", "AddUserReading"}
  \/ Finished(p) /\ run[p].result \in {"ok", "failed to save reading record to database"}

\* C24 as stated: a run resolves or creates its source only after its
\* duplicate lookup, and a link is made only to a reading that exists.
C24_LookupBeforeSource ==
  /\ \A p \in Runs :
       (\E s \in sources : s.ID = NewUUID(p, "source")) => DuplicateLookupDone(p)
  /\ \A l \in userReadings : \E r \in readings : r.ID = l.reading_id

\* The steps of a run from one call of the store to the next.
StageOrder ==
  {<<"idle", "GetSource">>, <<"idle", "done">>,
   <<"GetSource", "CreateSource">>, <<"GetSource", "GetReading">>,
   <<"CreateSource", "GetReading">>,
   <<"GetReading", "CreateReading">>, <<"GetReading", "AddUserReading">>,
   <<"CreateReading", "AddUserReading">>, <<"CreateReading", "done">>,
   <<"AddUserReading", "done">>}

\* C24 as the runs proceed: the content is hashed and the reading assembled
\* first, then the source is looked up and, if need be, created, then the
\* duplicate is looked up, then the reading is inserted unless one is
\* reused, then the user is linked; each row is written at its stage.
C24_StagesInOrder ==
  [][\A p \in Runs :
       /\ run'[p].pc # run[p].pc => <<run[p].pc, run'[p].pc>> \in StageOrder
       /\ run'[p].pc = "GetSource" => run'[p].reading.ContentHash # Empty
       /\ (\E s \in sources' \ sources : s.ID = NewUUID(p, "source")) =>
            run[p].pc = "CreateSource" /\ run'[p].pc = "GetReading"
       /\ (\E r \in readings' \ readings : r.ID = NewUUID(p, "reading")) =>
            run[p].pc = "CreateReading" /\ run'[p].pc = "AddUserReading"
       /\ \A l \in userReadings' \ userReadings :
            l.received_at = p =>
              /\ run[p].pc = "AddUserReading"
              /\ \E r \in readings : r.ID = l.reading_id]_vars

\* C24: the second of two messages of the same content comes from a sender
\* not seen before: its source is created although its reading is reused.
C24_Witness ==
  /\ Succeeded(1) /\ Succeeded(2)
  /\ \E s \in sources : s.ID = NewUUID(2, "source")
  /\ run[2].reading.ID = NewUUID(1, "reading")
  /\ Linked(run[2].userID, NewUUID(1, "reading"))

(***************************************************************************)
(* Properties of the qualification of an attachment                        *)
(***************************************************************************)

QualifiesForSomeEntry(att) == \E k \in 1..Len(EntryTiers) : QualifiesForEntry(att, k)

\* C25: an attachment is found for a priority entry exactly when its
\* extension is the entry's, whatever the letter case, or when it has at
\* least 100 bytes and its content type is one of the entry's and, for the
\* text entries, its extension is .txt or .text; and an attachment is the
\* primary content exactly when some attachment qualifies for some entry.
C25_QualificationRule ==
  Assembled =>
    /\ \A i \in 1..Len(input.env.Attachments), k \in 1..Len(priorityOrder) :
         checkAttachmentAgainstPriority(input.env.Attachments[i], priorityOrder[k]).found
           <=> QualifiesForEntry(input.env.Attachments[i], k)
    /\ (~output.asm.primary.err /\ output.asm.primary.isAttachment)
         <=> \E i \in 1..Len(input.env.Attachments) :
               QualifiesForSomeEntry(input.env.Attachments[i])

\* C25: a pdf by content type of 99 bytes and a text/plain attachment
\* without extension are passed over for the HTML body.
C25_Witness ==
  /\ Assembled
  /\ Len(input.env.Attachments) = 2
  /\ input.env.Attachments[1].FileName = <<"s", ".", "b", "i", "n">>
  /\ Len(input.env.Attachments[1].Content) = minAttachmentSizeBytes - 1
  /\ input.env.Attachments[2].FileName = <<"p", "l", "a", "i", "n">>
  /\ input.env.HTML # Empty
  /\ ~output.asm.primary.err
  /\ ~output.asm.primary.isAttachment

(***************************************************************************)
(* Properties of a failed run                                              *)
(***************************************************************************)

RowsAddedBy(p) ==
  [sources |-> {s \in sources : s.ID = NewUUID(p, "source")},
   readings |-> {r \in readings : r.ID = NewUUID(p, "reading")},
   userReadings |-> {l \in userReadings : l.received_at = p}]

\* C26: a request for which ProcessInboundEmail returned an error has added
\* no row to reading_sources, readings or user_readings.
C26_FailedRunWritesNothing ==
  \A p \in Runs :
    (Finished(p) /\ run[p].result # "ok") =>
      /\ RowsAddedBy(p).sources = {}
      /\ RowsAddedBy(p).readings = {}
      /\ RowsAddedBy(p).userReadings = {}

(***************************************************************************)
(* Properties of Converter.ToHTML and of ContentProcessor.Process          *)
(***************************************************************************)

Converted == input.kind = "toHTML" /\ output.done

PandocFormats == {ReadingFormatMD, ReadingFormatDOCX, ReadingFormatRTF}

\* C27: ToHTML returns its input bytes and format whenever it returns an
\* error, which it does when pandoc is absent or fails for md, docx and rtf
\* and for an unknown format; html comes back unchanged, txt wrapped in a
\* pre element and a converted md, docx or rtf as html, each without error.
C27_NoPartialConversion ==
  Converted =>
    /\ output.conv.err =>
         output.conv.bytes = input.bytes /\ output.conv.format = input.format
    /\ output.conv.err <=>
         \/ input.format \in PandocFormats /\ input.pandoc # "ok"
         \/ input.format = ReadingFormatUnknown
    /\ input.format = ReadingFormatHTML =>
         output.conv.bytes = input.bytes /\ output.conv.format = ReadingFormatHTML
    /\ input.format = ReadingFormatTXT =>
         /\ output.conv.bytes = <<"<pre>">> \o input.bytes \o <<"</pre>">>
         /\ output.conv.format = ReadingFormatHTML
    /\ (input.format \in PandocFormats /\ input.pandoc = "ok") =>
         output.conv.format = ReadingFormatHTML

\* C27: pandoc fails on a docx and the docx comes back as it went in.
C27_Witness ==
  /\ Converted
  /\ input.format = ReadingFormatDOCX
  /\ input.pandoc = "fails"
  /\ input.bytes = <<"P", "K">>
  /\ output.conv = [bytes |-> <<"P", "K">>, format |-> ReadingFormatDOCX, err |-> TRUE]

Processed == input.kind = "process" /\ output.done

\* Readability gives no content for the sanitized markup.
ExtractionFailsOn(cleanedHTML) ==
  ReadabilityFromReader(cleanedHTML).err \/ ReadabilityFromReader(cleanedHTML).Content = Empty

\* C28: Process returns an error, and then no result, or a result with
\* non-empty MainHTML; it returns an error for empty input; and when
\* extraction fails on non-empty sanitized markup the result is that
\* markup, its text with all tags stripped and an empty title.
C28_NoSuccessWithEmptyMainHTML ==
  Processed =>
    /\ output.res.err => output.res.data.nil
    /\ ~output.res.err => ~output.res.data.nil /\ output.res.data.MainHTML # Empty
    /\ input.rawHTML = Empty => output.res.err
    /\ (input.rawHTML # Empty /\ SanitizeUGC(input.rawHTML) # Empty
          /\ ExtractionFailsOn(SanitizeUGC(input.rawHTML))) =>
         /\ ~output.res.err
         /\ output.res.data.MainHTML = SanitizeUGC(input.rawHTML)
         /\ output.res.data.ExtractedTitle = Empty
         /\ output.res.data.MainText = SanitizeStripTags(SanitizeUGC(input.rawHTML))
    /\ (input.rawHTML # Empty /\ SanitizeUGC(input.rawHTML) = Empty) => output.res.err

\* C28: a script before markup readability cannot parse: the script is
\* cleaned away and the rest is kept as it is.
C28_Witness ==
  /\ Processed
  /\ input.rawHTML = <<"<script>", "<bad>", "H">>
  /\ ~output.res.err
  /\ output.res.data.MainHTML = <<"<bad>", "H">>
  /\ output.res.data.MainText = <<"H">>
  /\ output.res.data.ExtractedTitle = Empty

(***************************************************************************)
(* Properties of the cut point of the excerpt                              *)
(***************************************************************************)

\* Position (from 0), counted in characters, of the last occurrence of
\* substr in s, -1 if there is none.
LastPosition(s, substr) ==
  LET at == {i \in 1..(Len(s) - Len(substr) + 1) :
               SubSeq(s, i, i + Len(substr) - 1) = substr}
  IN  IF at = {} THEN -1
      ELSE (CHOOSE i \in at : \A j \in at : j <= i) - 1

\* The excerpt with the cut point chosen among the characters of the text:
\* the last sentence end of the first 250 characters if it lies in their
\* last 75, else the last space if it lies in their last 100, else the cap.
ExcerptCutByCharacters(plainTextContent) ==
  LET trimmed == TrimSpace(plainTextContent)
      head == SubSeq(trimmed, 1, maxLength)
      sentence == LastPosition(head, <<".", " ">>)
      word == LastPosition(head, <<" ">>)
  IN  IF Len(trimmed) <= maxLength THEN trimmed
      ELSE IF sentence > maxLength - 75
        THEN SubSeq(trimmed, 1, sentence + 1) \o Ellipsis
      ELSE IF word > maxLength - 100
        THEN SubSeq(trimmed, 1, word) \o Ellipsis
      ELSE head \o Ellipsis

\* C29: a trimmed text of more than 250 characters is cut at the last
\* sentence end of its first 250 characters if that lies within the last 75
\* of them, else at the last space if that lies within the last 100, else
\* at the cap, and an ellipsis follows; a shorter text is returned trimmed
\* and without an ellipsis.
C29_CutPointByPreference ==
  Excerpted =>
    /\ ~output.excerpt.panic
    /\ output.excerpt.text = ExcerptCutByCharacters(input.text)

\* C29 for texts of one-byte characters only.
C29_CutPointOfOneByteText ==
  (Excerpted /\ \A i \in 1..Len(input.text) : input.text[i] \notin MultiByte) =>
    /\ ~output.excerpt.panic
    /\ output.excerpt.text = ExcerptCutByCharacters(input.text)

(***************************************************************************)
(* Properties of the author                                                *)
(***************************************************************************)

AuthorExtracted == input.kind = "author" /\ output.done

\* C30: the author is the display name parsed from the From header if there
\* is one, otherwise the parsed address, otherwise empty; a missing or
\* unparseable From header gives an empty author.
C30_AuthorEmptyWithoutParsedHeader ==
  AuthorExtracted =>
    output.author =
      IF input.env.From.ok /\ input.env.From.Name # Empty THEN input.env.From.Name
      ELSE IF input.env.From.ok THEN input.env.From.Address
      ELSE Empty

\* C30, amended: the author is the display name parsed from the From header
\* if there is one, otherwise the parsed address; a From header that cannot
\* be parsed is itself the author; only a missing From header gives an empty
\* author.
C30_AuthorFallsBackToRawHeader ==
  AuthorExtracted =>
    output.author =
      IF input.env.From.raw = Empty THEN Empty
      ELSE IF input.env.From.ok /\ input.env.From.Name # Empty THEN input.env.From.Name
      ELSE IF input.env.From.ok THEN input.env.From.Address
      ELSE input.env.From.raw

\* C30: a From header that cannot be parsed has become the author.
C30_Witness ==
  /\ AuthorExtracted
  /\ input.env.From = FromUnparseable
  /\ output.author = <<"not an address">>

====
